---------------------------- MODULE Spec2Model ----------------------------
(***************************************************************************)
(* A model of outlet, a plugin host for Discord bots: the event funnel of  *)
(* DiscordBot (bot.py), the message dispatch of Plugin (plugin.py), the    *)
(* command decorator with its argument binding and its gates (command.py), *)
(* the converters (converters.py), the schedulers of the background jobs   *)
(* (background.py) and the loading of plugin files (util.py).              *)
(*                                                                         *)
(* Text is a sequence of one-character strings, so that str.split and      *)
(* str.startswith are computed as Python computes them.  The asyncio loop  *)
(* is a single thread: running names the coroutine that holds it, and a    *)
(* coroutine gives it up only where the code awaits the gateway.           *)
(***************************************************************************)
EXTENDS Integers, Sequences, FiniteSets, TLC

\* ------------------------------------------------------------------ bounds

\* Longest text after the command name in the binding specification.
MaxRest == 4
\* Events the gateway delivers in the fan-out specification.
MaxFanEvents == 1
\* Messages the gateway delivers in the message specification.
MaxMsgEvents == 2
\* Messages the gateway delivers in the gate specification.
MaxGateEvents == 2
\* Last value of the clock (seconds).
MaxTime == 3

\* ------------------------------------------------------------------- text

\* bot.py:45, the default prefix
Prefix == <<"!">>

Space == " "

\* The grave accent that the error texts put around a name.
BackQuote == "<grave>"

startswith(s, p) ==
    /\ Len(s) >= Len(p)
    /\ SubSeq(s, 1, Len(p)) = p

\* s[n:]
DropFirst(s, n) == SubSeq(s, n + 1, Len(s))

\* The index of the first space of s, or 0.
FirstSpace(s) ==
    IF \E i \in 1..Len(s) : s[i] = Space
    THEN CHOOSE i \in 1..Len(s) : s[i] = Space /\ \A j \in 1..(i - 1) : s[j] # Space
    ELSE 0

\* str.split(" "): every single space separates, so repeated spaces give
\* empty tokens and "".split(" ") is [""].
RECURSIVE split(_)
split(s) ==
    IF FirstSpace(s) = 0
    THEN <<s>>
    ELSE <<SubSeq(s, 1, FirstSpace(s) - 1)>> \o split(DropFirst(s, FirstSpace(s)))

\* ------------------------------------------------------------- converters

Digits == {"0", "1", "2", "3", "4", "5", "6", "7", "8", "9"}

DigitVal(c) ==
    CASE c = "0" -> 0 [] c = "1" -> 1 [] c = "2" -> 2 [] c = "3" -> 3
      [] c = "4" -> 4 [] c = "5" -> 5 [] c = "6" -> 6 [] c = "7" -> 7
      [] c = "8" -> 8 [] c = "9" -> 9

RECURSIVE DecimalVal(_)
DecimalVal(ds) ==
    IF ds = <<>> THEN 0
    ELSE 10 * DecimalVal(SubSeq(ds, 1, Len(ds) - 1)) + DigitVal(ds[Len(ds)])

\* A test that finds no dot.
HasDot_Never(value) == FALSE

\* converters.py:59: "." in value
HasDot(value) == \E i \in 1..Len(value) : value[i] = "."

\* The sign int and float allow before the digits, and what follows it.
Signs == {"-", "+"}

Negative(value) == value # <<>> /\ value[1] = "-"

Unsigned(value) == IF value # <<>> /\ value[1] \in Signs THEN Tail(value) ELSE value

\* int(value) parses: a sign or none, then one or more decimal digits (over
\* the characters of the model: no blanks, no underscore).
IntParses(value) ==
    /\ Len(Unsigned(value)) > 0
    /\ \A i \in 1..Len(Unsigned(value)) : Unsigned(value)[i] \in Digits

\* float(value) parses, for a value that holds a dot: a sign or none, then
\* digits around exactly one dot, at least one digit in all (over the
\* characters of the model: no exponent, no inf, no nan).
FloatParses(value) ==
    /\ Cardinality({i \in 1..Len(Unsigned(value)) : Unsigned(value)[i] = "."}) = 1
    /\ \A i \in 1..Len(Unsigned(value)) : Unsigned(value)[i] \in Digits \cup {"."}
    /\ Len(Unsigned(value)) > 1

DotAt(value) == CHOOSE i \in 1..Len(value) : value[i] = "."

\* What a call ends in: the exception raised ("None" when it returns), the
\* text of the exception and the value returned.
Returned(v) == [exc |-> "None", text |-> <<>>, val |-> v]

\* Converted values: a str, an int or a float.
StrValue(value) == [type |-> "str", str |-> value, int |-> 0]

IntValue(n) == [type |-> "int", str |-> <<>>, int |-> n]

\* A float: the whole part and the digits after the dot (after the sign, for
\* a negative one).
FloatValue(whole, frac) == [type |-> "float", str |-> frac, int |-> whole]

\* int(value) and float(value) of a value that parses.
int(value) ==
    IntValue(IF Negative(value) THEN 0 - DecimalVal(Unsigned(value))
             ELSE DecimalVal(Unsigned(value)))

float(value) ==
    LET u == Unsigned(value)
        whole == DecimalVal(SubSeq(u, 1, DotAt(u) - 1))
        frac == SubSeq(u, DotAt(u) + 1, Len(u))
    IN  IF Negative(value) THEN FloatValue(0 - whole, <<"-">> \o frac)
        ELSE FloatValue(whole, frac)

\* converters.py:61
WrongType(value) ==
    [exc |-> "WrongType", text |-> <<BackQuote>> \o value \o <<BackQuote, " isn't a number.">>,
     val |-> StrValue(<<>>)]

\* converters.py:45-50
String_convert(value) == Returned(StrValue(value))

\* converters.py:53-61
Number_convert(value) ==
    IF HasDot(value)
    THEN IF FloatParses(value) THEN Returned(float(value)) ELSE WrongType(value)
    ELSE IF IntParses(value) THEN Returned(int(value)) ELSE WrongType(value)

\* command.py:92-100: the annotation of the parameter, String by default
convert(converter, value) ==
    IF converter = "Number" THEN Number_convert(value) ELSE String_convert(value)

\* ------------------------------------------------------- argument binding

Raised(type, text) == [exc |-> type, text |-> text, val |-> <<>>]

\* A parameter of a command function after self and ctx: its converter (the
\* annotation) and whether it is *arg (Parameter.VAR_POSITIONAL).
Param(converter, var) == [converter |-> converter, var |-> var]

\* command.py:76, the most arguments a command with *arg takes
VarMaxArgs == 999

\* command.py:73
has_var_positional(params) == params[Len(params)].var

\* command.py:75
min_args(params) ==
    IF has_var_positional(params) THEN Len(params) - 1 ELSE Len(params)

\* command.py:76
max_args(params) ==
    IF has_var_positional(params) THEN VarMaxArgs ELSE Len(params)

\* command.py:68: a signature of self and ctx alone
TakesNoArguments(params) == Len(params) = 0

\* A check that lets a call with one argument too few through.
TooFew_OffByOne(args, params) == Len(args) < min_args(params) - 1

\* command.py:78
TooFew(args, params) == Len(args) < min_args(params)

\* command.py:80
TooMany(args, params) == Len(args) > max_args(params)

\* command.py:89-90: while args[0] == "": del args[0].  The loop reads
\* args[0] of an empty list, an IndexError, when every token left is empty.
OnlyEmpty(args) == \A i \in 1..Len(args) : args[i] = <<>>

RECURSIVE DropEmpty(_)
DropEmpty(args) ==
    IF args # <<>> /\ args[1] = <<>> THEN DropEmpty(Tail(args)) ELSE args

\* command.py:105-110: the tokens left, each converted with the converter of
\* the *arg; the first failure is raised.
RECURSIVE ConvertRest(_, _, _)
ConvertRest(converter, args, converted_args) ==
    IF args = <<>>
    THEN Returned(converted_args)
    ELSE IF convert(converter, args[1]).exc # "None"
         THEN Raised(convert(converter, args[1]).exc, convert(converter, args[1]).text)
         ELSE ConvertRest(converter, Tail(args),
                          Append(converted_args, convert(converter, args[1]).val))

\* command.py:85-110: for i in range(len(params))
RECURSIVE ConvertLoop(_, _, _, _)
ConvertLoop(i, params, args, converted_args) ==
    IF i > Len(params) \/ Len(args) = 0
    THEN Returned(converted_args)
    ELSE IF OnlyEmpty(args)
    THEN Raised("IndexError", <<"list index out of range">>)
    ELSE LET rest == DropEmpty(args)
             new_value == convert(params[i].converter, rest[1])
         IN  IF new_value.exc # "None"
             THEN Raised(new_value.exc, new_value.text)
             ELSE IF params[i].var
             THEN ConvertRest(params[i].converter, Tail(rest),
                              Append(converted_args, new_value.val))
             ELSE ConvertLoop(i + 1, params, Tail(rest),
                              Append(converted_args, new_value.val))

\* command.py:56-112
convert_arguments(args, params) ==
    IF TakesNoArguments(params)
    THEN Returned(<<>>)
    ELSE IF TooFew(args, params)
    THEN Raised("MissingArguments",
                <<ToString(min_args(params)), " argument(s) are required for this command">>)
    ELSE IF TooMany(args, params)
    THEN Raised("TooManyArguments",
                <<"Only ", ToString(max_args(params)), " argument(s) are allowed for this command">>)
    ELSE ConvertLoop(1, params, args, <<>>)

\* ------------------------------------------------------------- the plugins

\* Gates of a command, written under @command: the outermost first.
PermissionGate(perms) == [gate |-> "require_permissions", permission |-> perms, seconds |-> 0]

OwnerGate == [gate |-> "owner_only", permission |-> <<>>, seconds |-> 0]

CooldownGate(seconds) == [gate |-> "cooldown", permission |-> <<>>, seconds |-> seconds]

\* The cooldown of the commands below, in seconds.
CooldownSeconds == 2

\* A command: the names given to @command, the parameters of the function
\* after self and ctx, and the gates between @command and the function.
CommandOf(names, params, gates) == [names |-> names, params |-> params, gates |-> gates]

CommandIds ==
    {"ping", "zero", "one", "two", "rest", "num", "nums", "slow", "kick", "lock", "pong",
     "ban", "mute", "wait"}

Command(c) ==
    CASE c = "ping" -> CommandOf({<<"p">>}, <<>>, <<>>)
      [] c = "zero" -> CommandOf({<<"z">>}, <<>>, <<>>)
      [] c = "one"  -> CommandOf({<<"o">>}, <<Param("String", FALSE)>>, <<>>)
      [] c = "two"  -> CommandOf({<<"t">>}, <<Param("String", FALSE), Param("String", FALSE)>>, <<>>)
      [] c = "rest" -> CommandOf({<<"r">>}, <<Param("String", FALSE), Param("String", TRUE)>>, <<>>)
      [] c = "num"  -> CommandOf({<<"n">>}, <<Param("Number", FALSE)>>, <<>>)
      [] c = "nums" -> CommandOf({<<"m">>}, <<Param("Number", TRUE)>>, <<>>)
      [] c = "slow" -> CommandOf({<<"s">>}, <<>>, <<CooldownGate(CooldownSeconds)>>)
      [] c = "kick" -> CommandOf({<<"k">>}, <<>>,
                                 <<PermissionGate(<<"kick_members">>), CooldownGate(CooldownSeconds)>>)
      [] c = "lock" -> CommandOf({<<"l">>}, <<>>,
                                 <<CooldownGate(CooldownSeconds), PermissionGate(<<"kick_members">>)>>)
      [] c = "pong" -> CommandOf({<<"p">>}, <<>>, <<>>)
      [] c = "ban"  -> CommandOf({<<"b">>}, <<>>,
                                 <<PermissionGate(<<"kick_members", "ban_members">>)>>)
      [] c = "mute" -> CommandOf({<<"u">>}, <<>>,
                                 <<PermissionGate(<<"ban_members", "kick_members">>)>>)
      [] c = "wait" -> CommandOf({<<"w">>}, <<Param("Number", FALSE)>>,
                                 <<CooldownGate(CooldownSeconds), PermissionGate(<<"kick_members">>)>>)

\* A listener declared with @events.on_message(channel=...): events.py:24-43.
\* NoChannel is channel=None.
NoChannel == <<>>

PluginOf(commands, listeners) == [commands |-> commands, listeners |-> listeners]

PluginIds == {"Ping", "Args", "Gates", "Plain", "Jobs", "Beat", "Echo", "Perms", "Timed",
              "Hear"}

PluginDef(p) ==
    CASE p = "Ping"  -> PluginOf({"ping"}, <<>>)
      [] p = "Args"  -> PluginOf({"zero", "one", "two", "rest", "num", "nums"}, <<>>)
      [] p = "Gates" -> PluginOf({"slow", "kick", "lock"}, <<>>)
      [] p = "Plain" -> PluginOf({}, <<NoChannel, <<"g">> >>)
      [] p = "Jobs"  -> PluginOf({}, <<>>)
      [] p = "Beat"  -> PluginOf({}, <<>>)
      [] p = "Echo"  -> PluginOf({"pong"}, <<>>)
      [] p = "Perms" -> PluginOf({"ban", "mute"}, <<>>)
      [] p = "Timed" -> PluginOf({"wait"}, <<>>)
      [] p = "Hear"  -> PluginOf({"ping"}, << <<"g">>, NoChannel, <<"m">>, <<"g">> >>)

\* plugin.py:82-93: self.commands, every name of a command mapped to it
commands(p) ==
    [name \in UNION {Command(c).names : c \in PluginDef(p).commands} |->
        CHOOSE c \in PluginDef(p).commands : name \in Command(c).names]

\* ----------------------------------------------------------- the guild

Users == {"bot", "alice", "bob", "carol"}

\* self.bot.user
BotUser == "bot"

Guilds == {1, 2}

\* message.guild of a private message: None
NoGuild == 0

\* ctx.author.permissions_in(ctx.channel): alice may kick in every channel,
\* carol may ban in every channel and kick in channel g, bob may nothing.
permissions_in(author, channel) ==
    IF author = "alice" THEN {"kick_members"}
    ELSE IF author = "carol"
    THEN IF channel.name = <<"g">> THEN {"kick_members", "ban_members"} ELSE {"ban_members"}
    ELSE {}

\* ctx.guild.owner
owner(guild) == "alice"

\* ------------------------------------------------------------------ gates

\* What a command error is: errors.py:1-22, CommandError and its subclasses.
CommandErrors ==
    {"CommandError", "MissingPermission", "ArgumentError", "MissingArguments",
     "TooManyArguments", "WrongType"}

\* dict.get(key, 0)
Get(dict, key) == IF key \in DOMAIN dict THEN dict[key] ELSE 0

\* dict[key] = value
Put(dict, key, value) ==
    [k \in (DOMAIN dict) \cup {key} |-> IF k = key THEN value ELSE dict[k]]

\* A gate that names the last permission the author does not hold.
FirstMissing_Last(permission, held) ==
    IF \E i \in 1..Len(permission) : permission[i] \notin held
    THEN CHOOSE i \in 1..Len(permission) :
            /\ permission[i] \notin held
            /\ \A j \in (i + 1)..Len(permission) : permission[j] \in held
    ELSE 0

\* command.py:190-192: the first permission, in the order declared, that the
\* author does not hold in the channel (0 when the author holds them all).
FirstMissing(permission, held) ==
    IF \E i \in 1..Len(permission) : permission[i] \notin held
    THEN CHOOSE i \in 1..Len(permission) :
            /\ permission[i] \notin held
            /\ \A j \in 1..(i - 1) : permission[j] \in held
    ELSE 0

\* A gate that keeps one time for all guilds.
CoolingDown_AnyGuild(guild_calls_, guild, seconds, time) ==
    \E g \in DOMAIN guild_calls_ : time - guild_calls_[g] < seconds

\* command.py:239
CoolingDown(guild_calls_, guild, seconds, time) ==
    time - Get(guild_calls_, guild) < seconds

\* command.py:242
Stamp(guild_calls_, guild, time) == Put(guild_calls_, guild, time)

\* A gate that records the time of a call it rejects.
Rejected_Stamped(guild_calls_, guild, time) == Put(guild_calls_, guild, time)

\* command.py:239-240: the gate raises before line 242, so the dictionary is
\* as it was.
Rejected(guild_calls_, guild, time) == guild_calls_

\* Gates that run innermost first.
GateOrder_Reversed(gates) == [i \in 1..Len(gates) |-> gates[Len(gates) + 1 - i]]

\* The order in which the gates of a command run: a decorator wraps what is
\* under it, so the gate written first runs first.
GateOrder(gates) == gates

\* The gates of a call, from gate i on: the exception raised by the first
\* gate that rejects, the number of gates passed, and the cooldown
\* dictionaries (one per gate) as the gates leave them.
\* command.py:186-194 (require_permissions), 209-214 (owner_only),
\* 237-244 (cooldown).
RECURSIVE RunGates(_, _, _, _, _)
RunGates(gates, i, message, calls_, time) ==
    IF i > Len(gates)
    THEN [exc |-> "None", text |-> <<>>, passed |-> Len(gates), calls |-> calls_]
    ELSE LET g == gates[i] IN
         IF g.gate = "require_permissions"
         THEN LET held == permissions_in(message.author, message.channel)
                  m == FirstMissing(g.permission, held)
              IN  IF m # 0
                  THEN [exc |-> "MissingPermission",
                        text |-> <<"This command requires the ", BackQuote, g.permission[m], BackQuote, " permission">>,
                        passed |-> i - 1, calls |-> calls_]
                  ELSE RunGates(gates, i + 1, message, calls_, time)
         ELSE IF message.guild = NoGuild
         THEN [exc |-> "AttributeError", text |-> <<"'NoneType' object has no attribute">>,
               passed |-> i - 1, calls |-> calls_]
         ELSE IF g.gate = "owner_only"
         THEN IF message.author # owner(message.guild)
              THEN [exc |-> "MissingPermission",
                    text |-> <<"Only the owner of the guild can use this command">>,
                    passed |-> i - 1, calls |-> calls_]
              ELSE RunGates(gates, i + 1, message, calls_, time)
         ELSE IF CoolingDown(calls_[i], message.guild, g.seconds, time)
              THEN [exc |-> "CommandError",
                    text |-> <<"This command has a ", ToString(g.seconds), " second cooldown.">>,
                    passed |-> i - 1,
                    calls |-> [calls_ EXCEPT ![i] = Rejected(calls_[i], message.guild, time)]]
              ELSE RunGates(gates, i + 1, message,
                            [calls_ EXCEPT ![i] = Stamp(calls_[i], message.guild, time)], time)

\* ------------------------------------------------------------ the command

\* What the function of a command does when it is called.
HandlerOutcomes == {"None", "str", "value", "CommandError", "Exception"}

\* The text a command function returns, and the text of the error it raises.
HandlerText == <<"pong">>

HandlerErrorText == <<"no">>

\* command.py:154, the call of func: Python binds the arguments to the parameters of
\* the function and raises TypeError when their number does not fit.
Accepts(params, args) ==
    IF params # <<>> /\ has_var_positional(params)
    THEN Len(args) >= Len(params) - 1
    ELSE Len(args) = Len(params)

\* Gates that keep what they recorded only when the function succeeds.
Recorded_OnSuccess(before, after, outcome) ==
    IF outcome \in {"CommandError", "Exception"} THEN before ELSE after

\* command.py:242-244: the gates have written their dictionaries before the
\* function is called, so what they recorded stays whatever the function does.
Recorded(before, after, outcome) == after

\* A reply for whatever the function returns, None left aside.
IsStr_AnyValue(returned) == returned \in {"str", "value"}

\* command.py:157: isinstance(returned, str)
IsStr(returned) == returned = "str"

\* A command whose gates run whether or not its arguments were bound.
GatesRun_Always(b) == TRUE

\* command.py:151-154: the gates run in the call of func, which comes after
\* convert_arguments and is not reached when that raises.
GatesRun(b) == b.exc = "None"

NoCall(calls_) ==
    [matched |-> FALSE, exc |-> "None", text |-> <<>>, bound |-> FALSE, args |-> <<>>,
     passed |-> 0, called |-> FALSE, returned |-> "None", reply |-> FALSE, calls |-> calls_]

\* command.py:140-158: real_command(self_, message, content) for command c,
\* with the cooldown dictionaries of c, the time, and what the function does.
real_command(c, message, content, calls_, time, outcome) ==
    LET tokens   == split(content)
        command_ == tokens[1]
        args     == IF Len(tokens) > 1 THEN Tail(tokens) ELSE <<>>
        params   == Command(c).params
        gates    == GateOrder(Command(c).gates)
        b        == convert_arguments(args, params)
        g        == RunGates(gates, 1, message, calls_, time)
    IN  IF command_ \notin Command(c).names
        THEN NoCall(calls_)
        ELSE IF b.exc # "None"
        THEN [NoCall(calls_) EXCEPT !.matched = TRUE, !.exc = b.exc, !.text = b.text,
                                    !.passed = IF GatesRun(b) THEN g.passed ELSE 0,
                                    !.calls = IF GatesRun(b) THEN g.calls ELSE calls_]
        ELSE IF g.exc # "None"
        THEN [NoCall(calls_) EXCEPT !.matched = TRUE, !.exc = g.exc, !.text = g.text,
                                    !.bound = TRUE, !.args = b.val, !.passed = g.passed,
                                    !.calls = g.calls]
        ELSE IF ~Accepts(params, b.val)
        THEN [NoCall(calls_) EXCEPT !.matched = TRUE, !.exc = "TypeError",
                                    !.text = <<"missing required positional argument">>,
                                    !.bound = TRUE, !.args = b.val, !.passed = g.passed,
                                    !.calls = g.calls]
        ELSE [matched |-> TRUE,
              exc |-> IF outcome \in {"CommandError", "Exception"} THEN outcome ELSE "None",
              text |-> IF outcome = "CommandError" THEN HandlerErrorText
                       ELSE IF outcome = "str" THEN HandlerText ELSE <<>>,
              bound |-> TRUE, args |-> b.val, passed |-> g.passed, called |-> TRUE,
              returned |-> outcome,
              reply |-> IsStr(outcome),
              calls |-> Recorded(calls_, g.calls, outcome)]

\* ------------------------------------------------------------- the events

\* bot.py:90-208: the parameters of each on_<kind> of DiscordBot after self.
OneArgument ==
    {"shard_ready", "message", "message_delete", "private_channel_delete",
     "private_channel_create", "guild_channel_create", "guild_channel_delete",
     "member_join", "member_remove", "guild_join", "guild_remove",
     "guild_role_create", "guild_role_delete", "guild_available",
     "guild_unavailable"}

TwoArguments ==
    {"message_edit", "reaction_add", "reaction_remove", "reaction_clear",
     "private_channel_update", "guild_channel_update", "member_update",
     "guild_update", "guild_role_update", "member_ban", "member_unban"}

ThreeArguments == {"typing", "guild_emojis_update"}

EventKinds == {"ready"} \cup OneArgument \cup TwoArguments \cup ThreeArguments

EventArity(kind) ==
    IF kind \in ThreeArguments THEN 3
    ELSE IF kind \in TwoArguments THEN 2
    ELSE IF kind \in OneArgument THEN 1
    ELSE 0

\* plugin.py:183-268: the parameters of each on_<kind> of Plugin after self.
HandlerArity(kind) ==
    IF kind \in {"typing", "guild_emojis_update"} THEN 3
    ELSE IF kind \in TwoArguments THEN 2
    ELSE IF kind = "ready" THEN 0
    ELSE 1

\* bot.py:94-208: the arguments DiscordBot passes on to the plugin.  Every
\* funnel passes its own arguments, on_shard_ready (bot.py:100) passes none.
Passed(kind, payload) == IF kind = "shard_ready" THEN <<>> ELSE payload

\* The values an argument of an event takes.
PayloadValues == {1, 2}

Payload(kind, v) == [j \in 1..EventArity(kind) |-> v]

TextChannel(name) == [type |-> "TextChannel", name |-> name]

DMChannel == [type |-> "DMChannel", name |-> <<>>]

Message(author, guild, channel, content) ==
    [author |-> author, channel |-> channel, guild |-> guild, content |-> content]

NoMessage == Message("", NoGuild, DMChannel, <<>>)

\* -------------------------------------------------------- background jobs

\* background.py:25: the arguments of @run_every
run_every(s, cancel_old_task) == [s |-> s, cancel_old_task |-> cancel_old_task]

JobIds == {"poll", "sweep", "beat"}

\* The jobs the plugins declare: poll cancels a run that is still going,
\* sweep and beat let runs overlap.
Job(j) ==
    CASE j = "poll"  -> run_every(1, TRUE)
      [] j = "sweep" -> run_every(2, FALSE)
      [] j = "beat"  -> run_every(1, FALSE)

\* plugin.py:109-119: the jobs of plugin p, in the order of dir(self)
collect_bg_tasks(p) ==
    CASE p = "Jobs" -> <<"poll", "sweep">>
      [] p = "Beat" -> <<"beat">>
      [] OTHER -> <<>>

\* An element of Plugin.bg_tasks: a job function that collect_bg_tasks put
\* there, or the task of a scheduler that start_bg_tasks appended.
JobFunction(j) == [is_task |-> FALSE, job |-> j, scheduler |-> 0]

SchedulerTask(j, k) == [is_task |-> TRUE, job |-> j, scheduler |-> k]

\* plugin.py:74 and 80: bg_tasks of every plugin after Plugin.__init__
Collected(plugin_list) ==
    [i \in 1..Len(plugin_list) |->
        [n \in 1..Len(collect_bg_tasks(plugin_list[i])) |->
            JobFunction(collect_bg_tasks(plugin_list[i])[n])]]

\* ---------------------------------------------------------------- loading

\* No class is being defined.
NoDecl == [stack |-> <<>>, left |-> 0, is_command |-> FALSE, layers |-> <<>>,
           pc |-> "none", exc |-> "None", at |-> 0, calls |-> 0]

\* get_plugins has returned.
Loaded == [files |-> <<>>, i |-> 1, pc |-> "done", exc |-> "None", reported |-> <<>>]

\* ------------------------------------------------------------------ state

VARIABLES
    plugins,      \* DiscordBot.plugins, the loaded plugins in order
    events,       \* the events delivered, each with the place of its on_<kind> coroutine
    tasks,        \* the coroutines handed to loop.create_task by the plugins:
                  \* the on_message hooks and the listeners, run or not yet
    calls,        \* the calls of the plugins' on_<kind> hooks awaited by the bot
    outcomes,     \* what the command handling of each plugin did with each message
    sent,         \* the messages sent to channels
    guild_calls,  \* the guild_calls dictionary of every cooldown gate
    now,          \* time.time()
    running,      \* the event whose coroutine holds the loop, or 0
    bg_tasks,     \* Plugin.bg_tasks of every loaded plugin
    schedulers,   \* the coroutines of run_every launched, each with its runs
    decl,         \* a function under its decorators while its class is defined
    loading       \* DiscordBot.get_plugins: the files and the place of the loop

\* The state of the dispatch, of the background jobs and of the loading.
dispatch_vars == <<plugins, events, tasks, calls, outcomes, sent, guild_calls, now, running>>

job_vars == <<bg_tasks, schedulers>>

load_vars == <<decl, loading>>

vars == <<dispatch_vars, job_vars, load_vars>>

\* time.time() when the bot starts: long after the epoch.
ClockStart == 10

NoCalls == [c \in CommandIds |-> [i \in 1..Len(Command(c).gates) |-> <<>>]]

InitRun(plugin_lists) ==
    /\ plugins \in plugin_lists
    /\ events = <<>>
    /\ tasks = <<>>
    /\ calls = <<>>
    /\ outcomes = <<>>
    /\ sent = <<>>
    /\ guild_calls = NoCalls
    /\ now = ClockStart
    /\ running = 0
    /\ bg_tasks = Collected(plugins)
    /\ schedulers = <<>>

\* The bot has loaded its plugins and runs.
InitWith(plugin_lists) ==
    /\ InitRun(plugin_lists)
    /\ decl = NoDecl
    /\ loading = Loaded

\* -------------------------------------------------------------- the loop

\* The coroutine of an event after the call of the plugin at place i
\* returned: the next plugin of "for plugin in self.plugins", or the end.
Advanced(ev) ==
    IF ev.i < Len(plugins)
    THEN [ev EXCEPT !.i = @ + 1, !.pc = "loop", !.text = <<>>]
    ELSE [ev EXCEPT !.pc = "done", !.text = <<>>]

\* The coroutine of an event after an exception left it.
Failed(ev, exc) == [ev EXCEPT !.pc = "failed", !.exc = exc, !.text = <<>>]

\* The coroutine of an event suspended in channel.send(text).
Sending(ev, pc, text) == [ev EXCEPT !.pc = pc, !.text = text]

\* Who holds the loop once event e stands at ev: e itself while it goes on
\* to the next plugin, nobody once it awaits the gateway or has ended.
Holder(e, ev) == IF ev.pc = "loop" THEN e ELSE 0

\* The loop has run every task that was ready and polls the gateway.  A task
\* a plugin created is ready at once, so it runs before anything that the
\* gateway brings later.
Polling ==
    /\ running = 0
    /\ \A t \in 1..Len(tasks) : tasks[t].state # "pending"

\* The gateway delivers an event: discord.py schedules on_<kind> of the bot.
Dispatch(kind, payload, message, limit) ==
    /\ Polling
    /\ Len(events) < limit
    /\ events' = Append(events,
                        [kind |-> kind, payload |-> payload, message |-> message,
                         i |-> 1, pc |-> IF plugins = <<>> THEN "done" ELSE "loop",
                         exc |-> "None", text |-> <<>>])
    /\ UNCHANGED <<plugins, tasks, calls, outcomes, sent, guild_calls, now>>
    /\ UNCHANGED running
    /\ UNCHANGED <<job_vars, load_vars>>

\* bot.py:90-104 and 110-208: await plugin.on_<kind>(...) for the next plugin
\* of an event that is not a message.
CallHandler(e) ==
    /\ running \in {0, e}
    /\ events[e].pc = "loop"
    /\ events[e].kind # "message"
    /\ LET ev == events[e]
           args == Passed(ev.kind, ev.payload)
       IN  IF Len(args) # HandlerArity(ev.kind)
           THEN /\ events' = [events EXCEPT ![e] = Failed(ev, "TypeError")]
                /\ running' = 0
                /\ UNCHANGED calls
           ELSE \E outcome \in {"None", "Exception"} :
                  LET after == IF outcome = "None" THEN Advanced(ev)
                               ELSE Failed(ev, outcome)
                  IN  /\ calls' = Append(calls,
                                         [event |-> e, plugin |-> ev.i, handler |-> ev.kind,
                                          listener |-> 0, args |-> args, outcome |-> outcome])
                      /\ events' = [events EXCEPT ![e] = after]
                      /\ running' = Holder(e, after)
    /\ UNCHANGED <<plugins, tasks, outcomes, sent, guild_calls, now>>
    /\ UNCHANGED <<job_vars, load_vars>>

\* plugin.py:159: the message is a command line
IsCommandLine(content) == startswith(content, Prefix) /\ content # Prefix

\* A dispatch that does not look at the author.
IsSelf_Never(message) == FALSE

\* plugin.py:162: ignore myself
IsSelf(message) == message.author = BotUser

\* A handler that catches CommandError itself and none of its subclasses.
Caught_ExactClass(exc) == exc = "CommandError"

\* plugin.py:171: except errors.CommandError
Caught(exc) == exc \in CommandErrors

\* Listeners that do not look at the kind of the channel.
Listening_AnySource(p, message) ==
    SelectSeq([j \in 1..Len(PluginDef(p).listeners) |-> j],
              LAMBDA j : \/ PluginDef(p).listeners[j] = NoChannel
                         \/ message.channel.name = PluginDef(p).listeners[j])

\* plugin.py:151-156: the listeners of plugin p that get the message, in the
\* order of the registry.
Listening(p, message) ==
    IF message.channel.type = "TextChannel"
    THEN SelectSeq([j \in 1..Len(PluginDef(p).listeners) |-> j],
                   LAMBDA j : \/ PluginDef(p).listeners[j] = NoChannel
                              \/ message.channel.name = PluginDef(p).listeners[j])
    ELSE <<>>

\* Tasks created with the hook after the listeners.
Created_HookLast(e, i, p, message, args) ==
    [k \in 1..Len(Listening(p, message)) |->
        [event |-> e, plugin |-> i, handler |-> "listener",
         listener |-> Listening(p, message)[k], args |-> args, state |-> "pending"]]
    \o <<[event |-> e, plugin |-> i, handler |-> "message", listener |-> 0,
          args |-> args, state |-> "pending"]>>

\* plugin.py:149-156: the tasks __on_message__ creates, the hook first.
Created(e, i, p, message, args) ==
    <<[event |-> e, plugin |-> i, handler |-> "message", listener |-> 0,
       args |-> args, state |-> "pending"]>>
    \o [k \in 1..Len(Listening(p, message)) |->
          [event |-> e, plugin |-> i, handler |-> "listener",
           listener |-> Listening(p, message)[k], args |-> args, state |-> "pending"]]

\* plugin.py:149-159: the tasks the loop holds when the command handling
\* begins, those this call of __on_message__ created included.
Offered(e, i) ==
    Len(tasks) + Len(Created(e, i, plugins[i], events[e].message, <<>>))

\* What the command handling of one plugin did with one message.
Outcome(e, i, stage, c, r, stamped) ==
    [event |-> e, plugin |-> i, stage |-> stage, command |-> c, time |-> now,
     offered |-> Offered(e, i),
     matched |-> r.matched, exc |-> r.exc, text |-> r.text, bound |-> r.bound,
     args |-> r.args, passed |-> r.passed, called |-> r.called,
     returned |-> r.returned, reply |-> r.reply, stamped |-> stamped]

\* bot.py:106-108 and plugin.py:148-174: await plugin.__on_message__(message)
\* for the next plugin of a message, up to where it awaits the gateway;
\* does is what the function of a command may do.
OnMessage(e, does) ==
    /\ running \in {0, e}
    /\ events[e].pc = "loop"
    /\ events[e].kind = "message"
    /\ LET ev        == events[e]
           p         == plugins[ev.i]
           message   == ev.message
           no_prefix == DropFirst(message.content, Len(Prefix))
           cmd       == split(no_prefix)[1]
       IN  /\ tasks' = tasks \o Created(e, ev.i, p, message, Passed(ev.kind, ev.payload))
           /\ IF ~IsCommandLine(message.content) \/ IsSelf(message) \/ cmd \notin DOMAIN commands(p)
              THEN /\ outcomes' = Append(outcomes,
                        Outcome(e, ev.i,
                                IF ~IsCommandLine(message.content) THEN "ignored"
                                ELSE IF IsSelf(message) THEN "self" ELSE "unknown",
                                "", NoCall(<<>>), FALSE))
                   /\ events' = [events EXCEPT ![e] = Advanced(ev)]
                   /\ running' = Holder(e, Advanced(ev))
                   /\ UNCHANGED guild_calls
              ELSE \E outcome \in does :
                     LET c == commands(p)[cmd]
                         r == real_command(c, message, no_prefix, guild_calls[c], now, outcome)
                         after == IF r.exc = "None"
                                  THEN IF r.reply THEN Sending(ev, "reply", r.text)
                                       ELSE Advanced(ev)
                                  ELSE IF Caught(r.exc) THEN Sending(ev, "report", r.text)
                                  ELSE Failed(ev, r.exc)
                     IN  /\ outcomes' = Append(outcomes,
                              Outcome(e, ev.i, "invoked", c, r, r.calls # guild_calls[c]))
                         /\ guild_calls' = [guild_calls EXCEPT ![c] = r.calls]
                         /\ events' = [events EXCEPT ![e] = after]
                         /\ running' = Holder(e, after)
    /\ UNCHANGED <<plugins, calls, sent, now>>
    /\ UNCHANGED <<job_vars, load_vars>>

\* command.py:158 (ctx.send(returned)) and plugin.py:174
\* (message.channel.send(e)): the gateway has sent the text, and the
\* coroutine goes on.
SendDone(e) ==
    /\ Polling
    /\ events[e].pc \in {"reply", "report"}
    /\ sent' = Append(sent, [event |-> e, plugin |-> events[e].i, what |-> events[e].pc,
                             channel |-> events[e].message.channel,
                             text |-> events[e].text])
    /\ events' = [events EXCEPT ![e] = Advanced(events[e])]
    /\ running' = Holder(e, Advanced(events[e]))
    /\ UNCHANGED <<plugins, tasks, calls, outcomes, guild_calls, now>>
    /\ UNCHANGED <<job_vars, load_vars>>

\* A hook or a listener awaited by the coroutine of the event: what it
\* raises ends that coroutine.
AfterTask_Awaited(e, outcome) ==
    IF e # 0 /\ outcome # "None"
    THEN [events EXCEPT ![e] = Failed(@, outcome)]
    ELSE events

\* plugin.py:149 and 156, loop.create_task: the hook and the listeners are
\* tasks of their own, nobody awaits them, and what one raises stays in its
\* task; the coroutine of the event is as it was.
AfterTask(e, outcome) == events

\* plugin.py:121-130: the loop runs a task a plugin created, the hook
\* on_message or a listener; an exception ends that task alone.  The loop
\* runs the tasks that are ready in the order they were created.
RunTask(t, ends) ==
    /\ running = 0
    /\ tasks[t].state = "pending"
    /\ tasks[t].handler # "start_bg_tasks"
    /\ \A u \in 1..(t - 1) : tasks[u].state # "pending"
    /\ \E outcome \in ends :
         /\ tasks' = [tasks EXCEPT ![t].state = IF outcome = "None" THEN "done" ELSE "raised"]
         /\ events' = AfterTask(tasks[t].event, outcome)
    /\ UNCHANGED <<plugins, calls, outcomes, sent, guild_calls, now, running>>
    /\ UNCHANGED <<job_vars, load_vars>>

\* A second passes.
Tick ==
    /\ Polling
    /\ now < ClockStart + MaxTime
    /\ now' = now + 1
    /\ UNCHANGED <<plugins, events, tasks, calls, outcomes, sent, guild_calls, running>>
    /\ UNCHANGED <<job_vars, load_vars>>

\* --------------------------------------------------- the fan-out of events

\* The plugins loaded.
FanPlugins == {<<"Ping", "Plain">>, <<"Plain", "Ping">>, <<"Ping">>, <<>>}

FanMessages ==
    {Message(a, 1, TextChannel(<<"g">>), c) : a \in {"alice"}, c \in {<<"!", "p">>, <<"h", "i">>}}

Init == InitWith(FanPlugins)

DispatchEvent ==
    \E kind \in EventKinds \ {"message"}, v \in PayloadValues :
        Dispatch(kind, Payload(kind, v), NoMessage, MaxFanEvents)

DispatchMessage ==
    \E m \in FanMessages, v \in PayloadValues :
        Dispatch("message", Payload("message", v), m, MaxFanEvents)

Handle == \E e \in 1..Len(events) : CallHandler(e)

HandleMessage == \E e \in 1..Len(events) : OnMessage(e, HandlerOutcomes)

Send == \E e \in 1..Len(events) : SendDone(e)

Run == \E t \in 1..Len(tasks) : RunTask(t, {"None", "Exception"})

Next == DispatchEvent \/ DispatchMessage \/ Handle \/ HandleMessage \/ Send \/ Run

Spec == Init /\ [][Next]_vars

\* ------------------------------------------------ the dispatch of messages

MsgPlugins == {<<"Args", "Ping">>, <<"Ping", "Gates">>}

\* Who writes what: command lines that bind, that fail to bind, that a gate
\* rejects, and a line of the bot itself.
MsgLines ==
    {<<"alice", <<"!", "p">> >>,
     <<"alice", <<"!", "o">> >>,
     <<"alice", <<"!", "o", " ", "a", " ", "b">> >>,
     <<"alice", <<"!", "n", " ", "a">> >>,
     <<"bob",   <<"!", "k">> >>,
     <<"bot",   <<"!", "p">> >>}

InitMessages == InitWith(MsgPlugins)

DispatchLine ==
    \E l \in MsgLines :
        Dispatch("message", Payload("message", 1),
                 Message(l[1], 1, TextChannel(<<"g">>), l[2]), MaxMsgEvents)

\* The hooks of the plugins loaded here return.
RunHook == \E t \in 1..Len(tasks) : RunTask(t, {"None"})

NextMessages == DispatchLine \/ HandleMessage \/ Send \/ RunHook

SpecMessages == InitMessages /\ [][NextMessages]_vars

\* ------------------------------------------------- the binding of arguments

\* The characters of a command line after the name of the command.
LineAlphabet == {Space, "a", "1", "."}

Texts(n) == UNION {[1..k -> LineAlphabet] : k \in 0..n}

\* The command lines: the prefix, the name of a command of Args, and text.
BindLines ==
    {Prefix \o name \o rest : name \in DOMAIN commands("Args"), rest \in Texts(MaxRest)}

\* One message is pending; its line is any of lines.
InitPending(lines) ==
    /\ plugins = <<"Args">>
    /\ events \in {<<[kind |-> "message", payload |-> Payload("message", 1),
                      message |-> Message("alice", 1, TextChannel(<<"g">>), line),
                      i |-> 1, pc |-> "loop", exc |-> "None", text |-> <<>>]>> :
                   line \in lines}
    /\ tasks = <<>>
    /\ calls = <<>>
    /\ outcomes = <<>>
    /\ sent = <<>>
    /\ guild_calls = NoCalls
    /\ now = ClockStart
    /\ running = 0
    /\ bg_tasks = Collected(plugins)
    /\ schedulers = <<>>
    /\ decl = NoDecl
    /\ loading = Loaded

InitBinding == InitPending(BindLines)

NextBinding == HandleMessage \/ Send \/ RunHook

SpecBinding == InitBinding /\ [][NextBinding]_vars

\* ------------------------------------------------------------- the gates

\* Who writes what, in either guild: alice holds kick_members, bob does not.
GateLines ==
    {<<"alice", <<"!", "s">> >>, <<"alice", <<"!", "k">> >>, <<"bob", <<"!", "k">> >>}

InitGates == InitWith({<<"Gates">>})

DispatchGated ==
    \E l \in GateLines, g \in Guilds :
        Dispatch("message", Payload("message", 1),
                 Message(l[1], g, TextChannel(<<"g">>), l[2]), MaxGateEvents)

\* The functions of the gated commands return, reject or fail.
HandleGated ==
    \E e \in 1..Len(events) : OnMessage(e, {"None", "CommandError", "Exception"})

NextGates == DispatchGated \/ HandleGated \/ Send \/ RunHook \/ Tick

SpecGates == InitGates /\ [][NextGates]_vars

\* ------------------------------------------------ the background jobs run

\* Runs one scheduler starts.
MaxStarts == 3

\* A task of the loop that belongs to no event of the gateway.
PluginTask(i, handler) ==
    [event |-> 0, plugin |-> i, handler |-> handler, listener |-> 0,
     args |-> <<>>, state |-> "pending"]

\* plugin.py:176-179: __on_ready__ of the plugin at place i creates the task
\* of start_bg_tasks and then the task of the hook on_ready; it is called
\* at most limit times.
OnReady(i, limit) ==
    /\ running = 0
    /\ Cardinality({t \in 1..Len(tasks) :
                       tasks[t].plugin = i /\ tasks[t].handler = "start_bg_tasks"}) < limit
    /\ tasks' = tasks \o <<PluginTask(i, "start_bg_tasks"), PluginTask(i, "ready")>>
    /\ UNCHANGED <<plugins, events, calls, outcomes, sent, guild_calls, now, running>>
    /\ UNCHANGED <<job_vars, load_vars>>

\* plugin.py:139-144: for bg_task in self.bg_tasks, from element n on, with
\* count schedulers launched so far.  The loop appends the task of every
\* scheduler to the list it walks, so after the job functions it comes to a
\* task and calls it: TypeError, a task is not callable.
RECURSIVE start_loop(_, _, _)
start_loop(list, n, count) ==
    IF n > Len(list)
    THEN [bg_tasks |-> list, exc |-> "None"]
    ELSE IF list[n].is_task
    THEN [bg_tasks |-> list, exc |-> "TypeError"]
    ELSE start_loop(Append(list, SchedulerTask(list[n].job, count + 1)), n + 1, count + 1)

\* A coroutine of run_every that has not run yet.
Scheduler(i, j) == [plugin |-> i, job |-> j, pc |-> "created", slept |-> 0, runs |-> <<>>]

\* plugin.py:132-144: the task of start_bg_tasks runs.  running_bg_tasks is
\* empty (nothing is ever put into it), so the first loop cancels nothing.
start_bg_tasks(t) ==
    /\ running = 0
    /\ tasks[t].state = "pending"
    /\ tasks[t].handler = "start_bg_tasks"
    /\ \A u \in 1..(t - 1) : tasks[u].state # "pending"
    /\ LET i == tasks[t].plugin
           r == start_loop(bg_tasks[i], 1, Len(schedulers))
           appended == SubSeq(r.bg_tasks, Len(bg_tasks[i]) + 1, Len(r.bg_tasks))
       IN  /\ bg_tasks' = [bg_tasks EXCEPT ![i] = r.bg_tasks]
           /\ schedulers' = schedulers \o
                  [n \in 1..Len(appended) |-> Scheduler(i, appended[n].job)]
           /\ tasks' = [tasks EXCEPT ![t].state = IF r.exc = "None" THEN "done" ELSE "raised"]
    /\ UNCHANGED <<plugins, events, calls, outcomes, sent, guild_calls, now, running>>
    /\ UNCHANGED load_vars

\* A run of a job function: a task that has not started, its cancellation
\* not requested, created after the scheduler slept so many seconds.
Run_(waited) == [state |-> "pending", cancel |-> FALSE, waited |-> waited]

\* task.done(): the run returned, raised or was cancelled.
done(run) == run.state \in {"done", "raised", "cancelled"}

\* A scheduler that never cancels.
MustCancel_Never(job, run) == FALSE

\* background.py:42: if cancel_old_task and not task.done()
MustCancel(job, run) == job.cancel_old_task /\ ~done(run)

\* A sleep that ends a second early.
Slept_Early(job, slept) == slept >= job.s - 1

\* background.py:40: await asyncio.sleep(s) has returned
Slept(job, slept) == slept = job.s

\* background.py:37: the first step of new_func creates the task of the job
\* function and goes to sleep.
SchedulerStart(k) ==
    /\ running = 0
    /\ schedulers[k].pc = "created"
    /\ schedulers' = [schedulers EXCEPT ![k].pc = "sleeping", ![k].slept = 0,
                                        ![k].runs = <<Run_(0)>>]
    /\ UNCHANGED <<dispatch_vars, bg_tasks, load_vars>>

\* background.py:40-45: the sleep is over; the scheduler cancels the task it
\* holds when it must, creates the task of the job function again and
\* sleeps again.
SchedulerWake(k) ==
    /\ running = 0
    /\ schedulers[k].pc = "sleeping"
    /\ Slept(Job(schedulers[k].job), schedulers[k].slept)
    /\ Len(schedulers[k].runs) < MaxStarts
    /\ LET sch  == schedulers[k]
           task == Len(sch.runs)
           old  == IF MustCancel(Job(sch.job), sch.runs[task])
                   THEN [sch.runs EXCEPT ![task].cancel = TRUE]
                   ELSE sch.runs
       IN  schedulers' = [schedulers EXCEPT ![k].slept = 0,
                                            ![k].runs = Append(old, Run_(sch.slept))]
    /\ UNCHANGED <<dispatch_vars, bg_tasks, load_vars>>

\* A scheduler that awaits the task it created: the error of the run is
\* raised in the scheduler and ends it.
Ended_Awaited(sch, r, state) ==
    IF state = "raised"
    THEN [sch EXCEPT !.runs[r].state = state, !.pc = "raised"]
    ELSE [sch EXCEPT !.runs[r].state = state]

\* background.py:37-45: the scheduler creates the task of a run and only asks
\* it done() and cancel(); it never awaits it nor takes its result, so what
\* the run comes to stays in the task and the scheduler goes on as it was.
Ended(sch, r, state) == [sch EXCEPT !.runs[r].state = state]

\* The loop runs the task of a job function for the first time: a task
\* cancelled before it started never runs the function; else the function
\* returns, raises, or suspends in an await.
RunStart(k, r) ==
    /\ running = 0
    /\ schedulers[k].runs[r].state = "pending"
    /\ \E state \in IF schedulers[k].runs[r].cancel
                    THEN {"cancelled"} ELSE {"running", "done", "raised"} :
          schedulers' = [schedulers EXCEPT ![k] = Ended(schedulers[k], r, state)]
    /\ UNCHANGED <<dispatch_vars, bg_tasks, load_vars>>

\* What a suspended job function awaits completes: it returns or raises; one
\* that was asked to cancel gets CancelledError there, which ends it unless
\* it catches the error and goes on.
RunResume(k, r) ==
    /\ running = 0
    /\ schedulers[k].runs[r].state = "running"
    /\ \E state \in IF schedulers[k].runs[r].cancel
                    THEN {"cancelled", "done", "raised"} ELSE {"done", "raised"} :
          schedulers' = [schedulers EXCEPT ![k] = Ended(schedulers[k], r, state)]
    /\ UNCHANGED <<dispatch_vars, bg_tasks, load_vars>>

\* The scheduler at place k has slept its interval and starts a run next.
Due(k) ==
    /\ schedulers[k].pc = "sleeping"
    /\ Slept(Job(schedulers[k].job), schedulers[k].slept)
    /\ Len(schedulers[k].runs) < MaxStarts

\* The loop has something to run now.
Ready ==
    \/ \E t \in 1..Len(tasks) : tasks[t].state = "pending"
    \/ \E k \in 1..Len(schedulers) :
          \/ schedulers[k].pc = "created"
          \/ Due(k)
          \/ \E r \in 1..Len(schedulers[k].runs) : schedulers[k].runs[r].state = "pending"

\* background.py:40: a second of the clock of the loop passes for every
\* scheduler that sleeps.  The loop sleeps only when nothing is ready.
Elapse ==
    /\ running = 0
    /\ ~Ready
    /\ \E k \in 1..Len(schedulers) :
          schedulers[k].pc = "sleeping" /\ schedulers[k].slept < Job(schedulers[k].job).s
    /\ schedulers' =
          [k \in 1..Len(schedulers) |->
              IF schedulers[k].pc = "sleeping" /\ schedulers[k].slept < Job(schedulers[k].job).s
              THEN [schedulers[k] EXCEPT !.slept = @ + 1]
              ELSE schedulers[k]]
    /\ UNCHANGED <<dispatch_vars, bg_tasks, load_vars>>

\* ------------------------------------------------------- the ready event

\* Ready events the gateway delivers (a reconnect delivers it again).
MaxReadyEvents == 2

ReadyPlugins == {<<"Jobs", "Beat">>, <<"Beat", "Plain">>, <<"Jobs">>}

InitReady == InitWith(ReadyPlugins)

DispatchReady == Dispatch("ready", <<>>, NoMessage, MaxReadyEvents)

\* What runs when the gateway delivers ready: bot.py:90-94 awaits the hook
\* on_ready of every plugin.  Nothing there calls __on_ready__.
NextReady == DispatchReady \/ DispatchEvent \/ Handle

SpecReady == InitReady /\ [][NextReady]_vars

\* ------------------------------------------------------------ the schedulers

InitJobs == InitWith({<<"Jobs">>})

\* __on_ready__ of a plugin is called, once.
Launch == \E i \in 1..Len(plugins) : OnReady(i, 1)

StartJobs == \E t \in 1..Len(tasks) : start_bg_tasks(t)

Start == \E k \in 1..Len(schedulers) : SchedulerStart(k)

Wake == \E k \in 1..Len(schedulers) : SchedulerWake(k)

Begin == \E k \in 1..Len(schedulers) : \E r \in 1..Len(schedulers[k].runs) : RunStart(k, r)

Resume == \E k \in 1..Len(schedulers) : \E r \in 1..Len(schedulers[k].runs) : RunResume(k, r)

NextJobs == Launch \/ StartJobs \/ RunHook \/ Start \/ Wake \/ Begin \/ Resume \/ Elapse

\* The loop runs what is ready and its clock goes on; nothing makes
\* __on_ready__ be called or a suspended job function go on.
SpecJobs ==
    /\ InitJobs
    /\ [][NextJobs]_vars
    /\ WF_vars(StartJobs) /\ WF_vars(RunHook)
    /\ WF_vars(Start) /\ WF_vars(Wake) /\ WF_vars(Begin) /\ WF_vars(Elapse)

\* ------------------------------------------------------- the decorators

\* Decorators over one function.
MaxDecorators == 3
\* Messages that invoke the command defined.
MaxInvocations == 1

Decorators == {"command", "require_permissions", "owner_only", "cooldown"}

GateDecorators == {"require_permissions", "owner_only", "cooldown"}

\* The decorators over a function as written, the topmost first.
Stacks == UNION {[1..n -> Decorators] : n \in 0..MaxDecorators}

\* A check that takes nothing for a command.
IsCommand_Unchecked(func) == FALSE

\* command.py:179, 206, 228: getattr(func, "is_command", False)
IsCommand(func) == func.is_command

\* Decorator d applied to func.  command.py:136-164: @command returns
\* real_command, which has is_command (160).  command.py:178-196, 201-216,
\* 227-246: a gate raises SyntaxError over a command and else returns
\* new_func, which has the attributes of func (wraps) and no other.
decorate(d, func) ==
    IF d \in GateDecorators /\ IsCommand(func)
    THEN [exc |-> "SyntaxError", is_command |-> func.is_command, layers |-> func.layers]
    ELSE [exc |-> "None",
          is_command |-> IF d = "command" THEN TRUE ELSE func.is_command,
          layers |-> <<d>> \o func.layers]

\* A function written under the decorators of stack, none applied yet.
Declared(stack) ==
    [stack |-> stack, left |-> Len(stack), is_command |-> FALSE, layers |-> <<>>,
     pc |-> IF stack = <<>> THEN "defined" ELSE "defining", exc |-> "None", at |-> 0,
     calls |-> 0]

\* Python applies the decorators from the function upwards while it runs
\* the body of the class: the next one, the lowest not yet applied.
Decorate ==
    /\ decl.pc = "defining"
    /\ LET r == decorate(decl.stack[decl.left], decl) IN
       decl' = IF r.exc # "None"
               THEN [decl EXCEPT !.pc = "failed", !.exc = r.exc, !.at = decl.left]
               ELSE [decl EXCEPT !.left = @ - 1, !.is_command = r.is_command,
                                 !.layers = r.layers,
                                 !.pc = IF decl.left = 1 THEN "defined" ELSE "defining"]
    /\ UNCHANGED <<dispatch_vars, job_vars, loading>>

\* plugin.py:87-91 and 168-170: a plugin registers what has is_command, and
\* a message that names it calls it.
Invoke ==
    /\ decl.pc = "defined"
    /\ IsCommand(decl)
    /\ decl.calls < MaxInvocations
    /\ decl' = [decl EXCEPT !.calls = @ + 1]
    /\ UNCHANGED <<dispatch_vars, job_vars, loading>>

InitDecorate ==
    /\ InitRun({<<>>})
    /\ decl \in {Declared(stack) : stack \in Stacks}
    /\ loading = Loaded

NextDecorate == Decorate \/ Invoke

SpecDecorate == InitDecorate /\ [][NextDecorate]_vars

\* ----------------------------------------------------------- the loading

\* Files in the plugin directory.
MaxFiles == 3

\* A file of the plugin directory: whether running its module raises, the
\* plugin its class Plugin makes ("" when the module has no Plugin), what
\* the constructor of the plugin raises, and the decorators over the
\* functions of the class.
FileOf(raises, plugin, init, body) ==
    [raises |-> raises, plugin |-> plugin, init |-> init, body |-> body]

FileIds == {"ping", "plain", "jobs", "broken", "empty", "crash", "lazy", "wrong"}

FileDef(f) ==
    CASE f = "ping"   -> FileOf(FALSE, "Ping", "None", {<<"command">>})
      [] f = "plain"  -> FileOf(FALSE, "Plain", "None", {})
      [] f = "jobs"   -> FileOf(FALSE, "Jobs", "None", {})
      [] f = "broken" -> FileOf(TRUE, "Plain", "None", {})
      [] f = "empty"  -> FileOf(FALSE, "", "None", {})
      [] f = "crash"  -> FileOf(FALSE, "Plain", "Exception", {})
      [] f = "lazy"   -> FileOf(FALSE, "Plain", "ImportError", {})
      [] f = "wrong"  -> FileOf(FALSE, "Gates", "None", {<<"cooldown", "command">>})

\* The decorators of stack applied from the lowest up, from decorator n.
RECURSIVE decorated(_, _, _)
decorated(stack, n, func) ==
    IF n = 0 THEN "None"
    ELSE IF decorate(stack[n], func).exc # "None" THEN decorate(stack[n], func).exc
    ELSE decorated(stack, n - 1, decorate(stack[n], func))

\* util.py:31-39: whatever running the module raises becomes ImportError.
import_file(f) ==
    IF \/ FileDef(f).raises
       \/ \E stack \in FileDef(f).body :
             decorated(stack, Len(stack), Declared(stack)) # "None"
    THEN "ImportError"
    ELSE "None"

\* bot.py:72-74: util.import_file(file).Plugin(self), what it raises.
load(f) ==
    IF import_file(f) # "None" THEN import_file(f)
    ELSE IF FileDef(f).plugin = "" THEN "AttributeError"
    ELSE FileDef(f).init

\* A catch of every error of a plugin.
CaughtLoading_Any(exc) == exc # "None"

\* bot.py:76: except ImportError
CaughtLoading(exc) == exc = "ImportError"

\* The directories: files in the order glob gives them.
Directories ==
    {d \in UNION {[1..n -> FileIds] : n \in 0..MaxFiles} :
        \A a, b \in 1..Len(d) : a # b => d[a] # d[b]}

\* bot.py:68-77: one turn of "for file in files".
LoadFile ==
    /\ loading.pc = "loading"
    /\ loading.i <= Len(loading.files)
    /\ LET f == loading.files[loading.i]
           exc == load(f)
       IN  IF exc = "None"
           THEN /\ plugins' = Append(plugins, FileDef(f).plugin)
                /\ bg_tasks' = Collected(plugins')
                /\ loading' = [loading EXCEPT !.i = @ + 1]
           ELSE IF CaughtLoading(exc)
           THEN /\ loading' = [loading EXCEPT !.i = @ + 1, !.reported = Append(@, f)]
                /\ UNCHANGED <<plugins, bg_tasks>>
           ELSE /\ loading' = [loading EXCEPT !.pc = "failed", !.exc = exc]
                /\ UNCHANGED <<plugins, bg_tasks>>
    /\ UNCHANGED <<events, tasks, calls, outcomes, sent, guild_calls, now, running>>
    /\ UNCHANGED <<schedulers, decl>>

\* bot.py:79 and 55: get_plugins returns and the bot has its plugins.
Return ==
    /\ loading.pc = "loading"
    /\ loading.i > Len(loading.files)
    /\ loading' = [loading EXCEPT !.pc = "done"]
    /\ UNCHANGED <<dispatch_vars, job_vars, decl>>

InitLoading ==
    /\ InitRun({<<>>})
    /\ decl = NoDecl
    /\ loading \in {[files |-> d, i |-> 1, pc |-> "loading", exc |-> "None",
                     reported |-> <<>>] : d \in Directories}

NextLoading == LoadFile \/ Return

SpecLoading == InitLoading /\ [][NextLoading]_vars

\* ------------------------------------------------------ one alias, twice

\* Ping and Echo both register the name p.
AliasPlugins == {<<"Ping", "Echo">>, <<"Echo", "Ping">>}

AliasLines == {<<"!", "p">>, <<"!", "q">>}

InitAlias == InitWith(AliasPlugins)

DispatchAlias ==
    \E line \in AliasLines :
        Dispatch("message", Payload("message", 1),
                 Message("alice", 1, TextChannel(<<"g">>), line), MaxMsgEvents)

NextAlias == DispatchAlias \/ HandleMessage \/ Send \/ RunHook

SpecAlias == InitAlias /\ [][NextAlias]_vars

\* ------------------------------------------------------------ the numbers

\* Longest token given to the Number converter.
MaxToken == 4

NumberAlphabet == {"1", "2", ".", "-", "a"}

Tokens == UNION {[1..n -> NumberAlphabet] : n \in 0..MaxToken}

\* The lines: the token as the argument of num, and as the last argument of
\* nums, where it may be empty.
NumberLines ==
    {Prefix \o <<"n", Space>> \o token : token \in Tokens \ {<<>>}}
    \cup {Prefix \o <<"m", Space, "1", Space>> \o token : token \in Tokens}

InitNumber == InitPending(NumberLines)

SpecNumber == InitNumber /\ [][NextBinding]_vars

\* -------------------------------------------------------- the permissions

\* Messages the gateway delivers in the permission specification.
MaxPermEvents == 2

PermLines == {<<"!", "b">>, <<"!", "u">>}

PermChannels == {TextChannel(<<"g">>), TextChannel(<<"m">>)}

InitPermissions == InitWith({<<"Perms">>})

DispatchPermitted ==
    \E author \in Users \ {BotUser}, channel \in PermChannels, line \in PermLines :
        Dispatch("message", Payload("message", 1),
                 Message(author, 1, channel, line), MaxPermEvents)

NextPermissions == DispatchPermitted \/ HandleGated \/ Send \/ RunHook

SpecPermissions == InitPermissions /\ [][NextPermissions]_vars

\* ------------------------------------------- arguments and gates together

\* Messages the gateway delivers to the command with an argument and gates.
MaxFrameEvents == 2

\* Who writes what: lines of wait that bind, that have a token too few or
\* too many, and whose token is no number; bob holds no permission.
FrameLines ==
    {<<"alice", <<"!", "w", " ", "1">> >>,
     <<"alice", <<"!", "w">> >>,
     <<"alice", <<"!", "w", " ", "1", " ", "2">> >>,
     <<"alice", <<"!", "w", " ", "a">> >>,
     <<"bob",   <<"!", "w", " ", "a">> >>}

InitFrame == InitWith({<<"Timed">>})

DispatchFrame ==
    \E l \in FrameLines :
        Dispatch("message", Payload("message", 1),
                 Message(l[1], 1, TextChannel(<<"g">>), l[2]), MaxFrameEvents)

\* The clock stands still: every call comes within the cooldown of the one
\* before.
NextFrame == DispatchFrame \/ HandleGated \/ Send \/ RunHook

SpecFrame == InitFrame /\ [][NextFrame]_vars

\* ---------------------------------------------------------- the listeners

\* Hear listens in g, anywhere, in m and in g again, and has a command.
HearPlugins == {<<"Hear">>, <<"Plain", "Hear">>, <<"Hear", "Plain">>}

\* Where a message comes from: a channel of a guild, or a private one.
HearSources ==
    {<<1, TextChannel(<<"g">>)>>, <<1, TextChannel(<<"m">>)>>, <<NoGuild, DMChannel>>}

HearLines == {<<"!", "p">>, <<"h", "i">>}

InitListeners == InitWith(HearPlugins)

\* The gateway delivers one message.
DispatchHeard ==
    \E author \in {"alice", BotUser}, source \in HearSources, line \in HearLines :
        Dispatch("message", Payload("message", 1),
                 Message(author, source[1], source[2], line), 1)

\* The hooks, the listeners and the functions of the commands return or
\* raise.
NextListeners == DispatchHeard \/ HandleMessage \/ Send \/ Run

SpecListeners == InitListeners /\ [][NextListeners]_vars

\* ---------------------------------------------------------- ready again

\* Calls of __on_ready__ of a plugin (a reconnect makes the gateway ready
\* again).
MaxReadies == 2

RestartPlugins == {<<"Jobs">>, <<"Beat", "Plain">>}

InitRestart == InitWith(RestartPlugins)

Relaunch == \E i \in 1..Len(plugins) : OnReady(i, MaxReadies)

NextRestart == Relaunch \/ StartJobs \/ RunHook \/ Start \/ Begin \/ Resume

SpecRestart == InitRestart /\ [][NextRestart]_vars

\* ------------------------------------------------- calls during a cooldown

\* Messages the gateway delivers to the commands with a cooldown.
MaxCoolEvents == 3

\* alice calls slow, in either guild.
CoolLine == <<"!", "s">>

InitCooldown == InitWith({<<"Gates">>})

DispatchCooled ==
    \E g \in Guilds :
        Dispatch("message", Payload("message", 1),
                 Message("alice", g, TextChannel(<<"g">>), CoolLine), MaxCoolEvents)

\* The functions of the commands return or reject.
HandleCooled == \E e \in 1..Len(events) : OnMessage(e, {"None", "CommandError"})

NextCooldown == DispatchCooled \/ HandleCooled \/ Send \/ RunHook \/ Tick

SpecCooldown == InitCooldown /\ [][NextCooldown]_vars

\* ----------------------------------------------------------------- claims

\* The coroutine of event e has ended and every task created for e has run.
Finished(e) ==
    /\ events[e].pc \in {"done", "failed"}
    /\ \A t \in 1..Len(tasks) : tasks[t].event = e => tasks[t].state # "pending"

\* The calls of the on_<kind> hook of the plugin at place i for event e: for
\* a message the tasks of the hook that have run, else the calls awaited.
HookCalls(e, i) ==
    IF events[e].kind = "message"
    THEN {t \in 1..Len(tasks) :
            /\ tasks[t].event = e /\ tasks[t].plugin = i
            /\ tasks[t].handler = "message" /\ tasks[t].state # "pending"}
    ELSE {j \in 1..Len(calls) :
            /\ calls[j].event = e /\ calls[j].plugin = i
            /\ calls[j].handler = events[e].kind}

HookArgs(e, h) == IF events[e].kind = "message" THEN tasks[h].args ELSE calls[h].args

\* A hook awaited by the bot raised, or the function of a command failed
\* with an error that is no command error.
HandlerFailed(e) ==
    \/ \E j \in 1..Len(calls) : calls[j].event = e /\ calls[j].outcome = "Exception"
    \/ \E o \in 1..Len(outcomes) :
          outcomes[o].event = e /\ outcomes[o].called /\ outcomes[o].exc = "Exception"

\* Some hook, listener or command function of event e raised.
AnyHandlerRaised(e) ==
    \/ HandlerFailed(e)
    \/ \E t \in 1..Len(tasks) : tasks[t].event = e /\ tasks[t].state = "raised"
    \/ \E o \in 1..Len(outcomes) :
          outcomes[o].event = e /\ outcomes[o].called /\ outcomes[o].exc # "None"

\* C1: once an event is dealt with, the hook of every loaded plugin has been
\* called exactly once for it, also when the hook of a plugin (for a
\* message: the function of a command) raised.
C1_FanOutDespiteFailure ==
    \A e \in 1..Len(events) :
        (Finished(e) /\ HandlerFailed(e)) =>
            \A i \in 1..Len(plugins) : Cardinality(HookCalls(e, i)) = 1

\* C2: once an event none of whose handlers raised is dealt with, the hook
\* of every loaded plugin has been called exactly once for it, with the
\* arguments of the event.
C2_EveryPluginOnce ==
    \A e \in 1..Len(events) :
        (Finished(e) /\ ~AnyHandlerRaised(e)) =>
            \A i \in 1..Len(plugins) :
                /\ Cardinality(HookCalls(e, i)) = 1
                /\ \A h \in HookCalls(e, i) : HookArgs(e, h) = events[e].payload

\* C3: while the command of a plugin is suspended in the send of its reply
\* and the loop is free, the bot can hand the message to the next plugin.
C3_DispatcherDoesNotWait ==
    \A e \in 1..Len(events) :
        (events[e].pc = "reply" /\ events[e].i < Len(plugins) /\ running = 0) =>
            ENABLED OnMessage(e, HandlerOutcomes)

\* The messages sent for the command of plugin i on event e.
SentFor(e, i) == {k \in 1..Len(sent) : sent[k].event = e /\ sent[k].plugin = i}

\* C9: a message of the bot itself is dropped before the lookup: no plugin
\* looks its command up, binds arguments, calls a function or sends a reply.
C9_SelfMessagesIgnored ==
    \A o \in 1..Len(outcomes) :
        events[outcomes[o].event].message.author = BotUser =>
            /\ outcomes[o].stage \in {"ignored", "self"}
            /\ ~outcomes[o].matched /\ ~outcomes[o].bound /\ ~outcomes[o].called
            /\ SentFor(outcomes[o].event, outcomes[o].plugin) = {}
            /\ events[outcomes[o].event].pc \notin {"reply", "report", "failed"}

\* A message of the bot that starts with the prefix and names a command of a
\* loaded plugin has been handed to every plugin.
C9_Witness ==
    \E e \in 1..Len(events) :
        /\ events[e].message.author = BotUser
        /\ IsCommandLine(events[e].message.content)
        /\ \E i \in 1..Len(plugins) :
              DropFirst(events[e].message.content, Len(Prefix)) \in DOMAIN commands(plugins[i])
        /\ events[e].pc = "done"
        /\ Len(outcomes) >= Len(plugins)

\* C10: a command error in the command of plugin i on event e does not leave
\* __on_message__: the event does not fail at plugin i, the text of the
\* error is sent to the channel of the message exactly once (and nothing
\* else is sent for that command), and an event that ends has been handed
\* to every plugin.
C10_CommandErrorsReported ==
    \A o \in 1..Len(outcomes) :
        outcomes[o].exc \in CommandErrors =>
            LET e == outcomes[o].event
                i == outcomes[o].plugin
                suspended == events[e].i = i /\ events[e].pc = "report"
            IN  /\ ~(events[e].pc = "failed" /\ events[e].i = i)
                /\ Cardinality(SentFor(e, i)) = IF suspended THEN 0 ELSE 1
                /\ \A k \in SentFor(e, i) :
                      /\ sent[k].text = outcomes[o].text
                      /\ sent[k].channel = events[e].message.channel
                /\ events[e].pc = "done" =>
                      \A j \in 1..Len(plugins) :
                          /\ \E q \in 1..Len(outcomes) :
                                outcomes[q].event = e /\ outcomes[q].plugin = j
                          /\ \E t \in 1..Len(tasks) :
                                tasks[t].event = e /\ tasks[t].plugin = j

\* The first plugin reported a command error on the first message, a later
\* plugin was handed that message, and a function of a command was called
\* for the message after it.
C10_Witness ==
    /\ Len(events) = 2 /\ events[1].pc = "done" /\ events[2].pc = "done"
    /\ Len(plugins) = 2
    /\ \E o \in 1..Len(outcomes) :
          /\ outcomes[o].event = 1 /\ outcomes[o].plugin = 1
          /\ outcomes[o].exc = "MissingArguments"
    /\ \E k \in 1..Len(sent) : sent[k].event = 1 /\ sent[k].what = "report"
    /\ \E o \in 1..Len(outcomes) : outcomes[o].event = 1 /\ outcomes[o].plugin = 2
    /\ \E o \in 1..Len(outcomes) : outcomes[o].event = 2 /\ outcomes[o].called

\* The line of the message of an outcome, and the parameters of its command.
LineOf(o) == events[outcomes[o].event].message.content

ParamsOf(o) == Command(outcomes[o].command).params

\* The tokens after the name of the command: one for every space of the
\* line, the empty ones between repeated spaces included.
NTokens(line) == Cardinality({k \in 1..Len(line) : line[k] = Space})

\* The parameters that are not *arg.
Required(params) == Cardinality({k \in 1..Len(params) : ~params[k].var})

Variadic(params) == \E k \in 1..Len(params) : params[k].var

\* C4: a command line with fewer tokens than the command has required
\* parameters fails with MissingArguments, whose text names that number,
\* and the function of the command is not called.
C4_TooFewTokens ==
    \A o \in 1..Len(outcomes) :
        (outcomes[o].stage = "invoked" /\ NTokens(LineOf(o)) < Required(ParamsOf(o))) =>
            /\ outcomes[o].exc = "MissingArguments"
            /\ outcomes[o].text = <<ToString(Required(ParamsOf(o))),
                                    " argument(s) are required for this command">>
            /\ ~outcomes[o].called

\* A command of two parameters got one token, and the error was reported.
C4_Witness ==
    \E o \in 1..Len(outcomes) :
        /\ outcomes[o].stage = "invoked"
        /\ Required(ParamsOf(o)) = 2
        /\ NTokens(LineOf(o)) = 1
        /\ events[outcomes[o].event].pc = "done"
        /\ SentFor(outcomes[o].event, outcomes[o].plugin) # {}

\* C5: a command without *arg that has N parameters, N = 0 included, fails
\* with TooManyArguments on a line of more than N tokens, and its function
\* is not called.
C5_TooManyTokens ==
    \A o \in 1..Len(outcomes) :
        (/\ outcomes[o].stage = "invoked"
         /\ ~Variadic(ParamsOf(o))
         /\ NTokens(LineOf(o)) > Len(ParamsOf(o))) =>
            /\ outcomes[o].exc = "TooManyArguments"
            /\ ~outcomes[o].called

\* The tokens of a line that are not empty.
Words(line) ==
    SelectSeq(Tail(split(DropFirst(line, Len(Prefix)))), LAMBDA t : t # <<>>)

\* The converter of the k-th argument: that of the k-th parameter, or of
\* the *arg for the arguments after it.
ConverterAt(params, k) ==
    params[IF k < Len(params) THEN k ELSE Len(params)].converter

Converts(params, words) ==
    \A k \in 1..Len(words) : convert(ConverterAt(params, k), words[k]).exc = "None"

\* C6: empty tokens do not count and are not bound: a line whose words fit
\* the parameters of the command binds, and what is bound is the
\* conversion of the words of the line, in order.
C6_EmptyTokensDropped ==
    \A o \in 1..Len(outcomes) :
        outcomes[o].stage = "invoked" =>
            LET words  == Words(LineOf(o))
                params == ParamsOf(o)
            IN  /\ outcomes[o].bound =>
                     outcomes[o].args =
                        [k \in 1..Len(words) |-> convert(ConverterAt(params, k), words[k]).val]
                /\ (/\ params # <<>>
                    /\ Len(words) >= Required(params)
                    /\ (Variadic(params) \/ Len(words) <= Len(params))
                    /\ Converts(params, words)) => outcomes[o].bound

\* The place of the cooldown gate among the gates of command c (0: none).
CooldownAt(c) ==
    IF \E g \in 1..Len(Command(c).gates) : Command(c).gates[g].gate = "cooldown"
    THEN CHOOSE g \in 1..Len(Command(c).gates) : Command(c).gates[g].gate = "cooldown"
    ELSE 0

GuildOf(o) == events[outcomes[o].event].message.guild

AuthorOf(o) == events[outcomes[o].event].message.author

\* Outcome o is a call of a command with a cooldown that came to the
\* cooldown gate; that passed it; that the gate rejected.
AtCooldown(o) ==
    /\ outcomes[o].stage = "invoked" /\ outcomes[o].bound
    /\ CooldownAt(outcomes[o].command) # 0
    /\ outcomes[o].passed >= CooldownAt(outcomes[o].command) - 1

PassedCooldown(o) ==
    AtCooldown(o) /\ outcomes[o].passed >= CooldownAt(outcomes[o].command)

RejectedByCooldown(o) ==
    /\ AtCooldown(o) /\ ~PassedCooldown(o)
    /\ outcomes[o].exc = "CommandError" /\ ~outcomes[o].called

\* Call a of a command passed its cooldown in the guild of the later call b
\* of the same command, less than the cooldown before b.
Cools(a, b) ==
    /\ a < b
    /\ outcomes[a].command = outcomes[b].command
    /\ GuildOf(a) = GuildOf(b)
    /\ PassedCooldown(a)
    /\ outcomes[b].time - outcomes[a].time
          < Command(outcomes[b].command).gates[CooldownAt(outcomes[b].command)].seconds

\* C7: a call that comes to the cooldown gate less than the cooldown after a
\* call of the same command in the same guild passed it is rejected with a
\* CommandError and the function is not called; and a call is rejected only
\* so: calls in other guilds never make the gate reject.
C7_CooldownPerGuild ==
    \A b \in 1..Len(outcomes) :
        AtCooldown(b) =>
            (RejectedByCooldown(b) <=> \E a \in 1..Len(outcomes) : Cools(a, b))

\* The second of two calls in one guild, less than the cooldown apart, was
\* rejected and the rejection was sent.
C7_Witness ==
    \E a, b \in 1..Len(outcomes) :
        /\ Cools(a, b) /\ RejectedByCooldown(b)
        /\ outcomes[a].called
        /\ outcomes[b].time > outcomes[a].time
        /\ SentFor(outcomes[b].event, outcomes[b].plugin) # {}

\* Command c puts a permission gate before its cooldown gate.
PermissionFirst(c) ==
    /\ CooldownAt(c) # 0
    /\ \E g \in 1..(CooldownAt(c) - 1) : Command(c).gates[g].gate = "require_permissions"

\* C8: with the permission gate before the cooldown gate, a call rejected
\* for a missing permission records no time, and does not make the
\* cooldown reject a later call of a permitted author in that guild.
C8_PermissionBeforeCooldown ==
    \A a \in 1..Len(outcomes) :
        (/\ outcomes[a].stage = "invoked"
         /\ PermissionFirst(outcomes[a].command)
         /\ outcomes[a].exc = "MissingPermission") =>
            /\ ~outcomes[a].stamped
            /\ ~outcomes[a].called
            /\ \A b \in (a + 1)..Len(outcomes) :
                  (/\ outcomes[b].command = outcomes[a].command
                   /\ GuildOf(b) = GuildOf(a)
                   /\ AtCooldown(b)
                   /\ ~\E x \in 1..Len(outcomes) : Cools(x, b)) => PassedCooldown(b)

\* bob was rejected for the permission, and alice called the command in the
\* same guild within the cooldown.
C8_Witness ==
    \E a, b \in 1..Len(outcomes) :
        /\ a < b
        /\ outcomes[a].command = "kick" /\ outcomes[b].command = "kick"
        /\ outcomes[a].exc = "MissingPermission"
        /\ GuildOf(a) = GuildOf(b)
        /\ outcomes[b].time - outcomes[a].time < CooldownSeconds
        /\ outcomes[b].called
        /\ outcomes[b].stamped

\* C11: the text a command function returns is sent to the channel of the
\* message once, and only after the function returned; a function that
\* returns another value, or nothing, has nothing sent for it.
C11_StringReturnSentOnce ==
    /\ \A o \in 1..Len(outcomes) :
          (outcomes[o].called /\ outcomes[o].exc = "None") =>
              LET e == outcomes[o].event
                  i == outcomes[o].plugin
                  suspended == events[e].i = i /\ events[e].pc = "reply"
              IN  IF outcomes[o].returned = "str"
                  THEN /\ Cardinality(SentFor(e, i)) = IF suspended THEN 0 ELSE 1
                       /\ \A k \in SentFor(e, i) :
                             /\ sent[k].what = "reply"
                             /\ sent[k].text = HandlerText
                             /\ sent[k].channel = events[e].message.channel
                  ELSE /\ SentFor(e, i) = {}
                       /\ ~suspended
    /\ \A k \in 1..Len(sent) :
          sent[k].what = "reply" =>
              \E o \in 1..Len(outcomes) :
                  /\ outcomes[o].event = sent[k].event
                  /\ outcomes[o].plugin = sent[k].plugin
                  /\ outcomes[o].called /\ outcomes[o].returned = "str"

\* One message whose command returned text has its reply sent, and another
\* whose command returned a value that is no text has ended.
C11_Witness ==
    /\ \E o \in 1..Len(outcomes) :
          /\ outcomes[o].called /\ outcomes[o].returned = "str"
          /\ Cardinality(SentFor(outcomes[o].event, outcomes[o].plugin)) = 1
          /\ events[outcomes[o].event].pc = "done"
    /\ \E o \in 1..Len(outcomes) :
          /\ outcomes[o].called /\ outcomes[o].returned = "value"
          /\ events[outcomes[o].event].pc = "done"

\* The scheduler of job n of the plugin at place i has been launched and has
\* started its first run.
Launched(i, n) ==
    \E k \in 1..Len(schedulers) :
        /\ schedulers[k].plugin = i
        /\ schedulers[k].job = collect_bg_tasks(plugins[i])[n]
        /\ Len(schedulers[k].runs) >= 1

\* C12: once the bot has dealt with a ready event and the loop has run what
\* was ready, every job of every loaded plugin has been launched and its
\* first run started.
C12_ReadyLaunchesJobs ==
    \A e \in 1..Len(events) :
        (events[e].kind = "ready" /\ events[e].pc = "done" /\ ~Ready) =>
            \A i \in 1..Len(plugins) :
                \A n \in 1..Len(collect_bg_tasks(plugins[i])) : Launched(i, n)

\* The runs of a scheduler were started on time: the first before any
\* sleep, every later one after a sleep of the interval of the job.
OnTime(sch) ==
    /\ sch.pc = "sleeping" => Len(sch.runs) >= 1
    /\ \A r \in 1..Len(sch.runs) :
          sch.runs[r].waited = IF r = 1 THEN 0 ELSE Job(sch.job).s

\* C13: a scheduler that was launched starts the job function at once and
\* again after every interval, whatever became of the earlier runs: its runs
\* are started on time, and it goes on to start runs (here: as many as the
\* model counts).
C13_RunsKeepStarting ==
    /\ [](\A k \in 1..Len(schedulers) : OnTime(schedulers[k]))
    /\ (schedulers # <<>>) ~>
          (\A k \in 1..Len(schedulers) : Len(schedulers[k].runs) = MaxStarts)

\* A scheduler has started all its runs while none of the earlier ones has
\* finished.
C13_Witness ==
    \E k \in 1..Len(schedulers) :
        /\ Len(schedulers[k].runs) = MaxStarts
        /\ \A r \in 1..(MaxStarts - 1) : schedulers[k].runs[r].state = "running"

\* The runs of a scheduler that are in flight and were not asked to cancel.
InFlight(sch) == {r \in 1..Len(sch.runs) : ~done(sch.runs[r]) /\ ~sch.runs[r].cancel}

\* C14: a scheduler that disallows overlap has asked every run before the
\* newest to cancel unless it was done, so at most one of its runs is in
\* flight without such a request; a scheduler that allows overlap has asked
\* no run to cancel.
C14_OverlapPolicy ==
    \A k \in 1..Len(schedulers) :
        LET sch == schedulers[k] IN
        IF Job(sch.job).cancel_old_task
        THEN /\ \A r \in 1..(Len(sch.runs) - 1) : done(sch.runs[r]) \/ sch.runs[r].cancel
             /\ Cardinality(InFlight(sch)) <= 1
             /\ \A r \in 1..Len(sch.runs) : sch.runs[r].cancel => r < Len(sch.runs)
        ELSE \A r \in 1..Len(sch.runs) : ~sch.runs[r].cancel

\* Two runs of a job that allows overlap are in flight together, and a run
\* of a job that disallows it still goes on after the request to cancel,
\* beside the run started after it.
C14_Witness ==
    /\ \E k \in 1..Len(schedulers) :
          /\ ~Job(schedulers[k].job).cancel_old_task
          /\ Cardinality(InFlight(schedulers[k])) >= 2
    /\ \E k \in 1..Len(schedulers) :
          /\ Job(schedulers[k].job).cancel_old_task
          /\ \E r \in 1..(Len(schedulers[k].runs) - 1) :
                /\ schedulers[k].runs[r].cancel
                /\ schedulers[k].runs[r].state = "running"
                /\ schedulers[k].runs[r + 1].state = "running"

\* The gates of stack that stand above a command.
GatesAboveCommand(stack) ==
    {a \in 1..Len(stack) :
        /\ stack[a] \in GateDecorators
        /\ \E b \in (a + 1)..Len(stack) : stack[b] = "command"}

\* The lowest of them: the first one Python applies.
LowestGateAbove(stack) ==
    CHOOSE a \in GatesAboveCommand(stack) : \A b \in GatesAboveCommand(stack) : b <= a

\* C15: a gate written above @command fails when it is applied, while the
\* class is defined: the definition never completes, the failure is the
\* SyntaxError of that gate, and nothing of it is ever registered or
\* called.  A stack without a gate above a command does not fail.
C15_GateAboveCommandFailsFast ==
    IF GatesAboveCommand(decl.stack) # {}
    THEN /\ decl.pc \in {"defining", "failed"}
         /\ decl.calls = 0
         /\ decl.pc = "defining" => decl.left >= LowestGateAbove(decl.stack)
         /\ decl.pc = "failed" =>
               /\ decl.exc = "SyntaxError"
               /\ decl.at = LowestGateAbove(decl.stack)
    ELSE decl.pc # "failed"

\* A cooldown written above @command above another gate has failed.
C15_Witness ==
    /\ decl.stack = <<"cooldown", "command", "owner_only">>
    /\ decl.pc = "failed"
    /\ decl.at = 1

\* What loading file f fails with, "None" when it loads.
LoadFailure(f) ==
    IF FileDef(f).raises THEN "module"
    ELSE IF \E stack \in FileDef(f).body : GatesAboveCommand(stack) # {} THEN "module"
    ELSE IF FileDef(f).plugin = "" THEN "class"
    ELSE IF FileDef(f).init # "None" THEN "constructor"
    ELSE "None"

\* C17: get_plugins ends by returning; the plugin of every file that loads
\* is in the loaded set, in order, whatever the other files do, and every
\* file that fails to load is reported and its plugin left out.
C17_FailedPluginOmitted ==
    loading.pc # "loading" =>
        /\ loading.pc = "done"
        /\ plugins =
              [n \in 1..Len(SelectSeq(loading.files, LAMBDA f : LoadFailure(f) = "None")) |->
                  FileDef(SelectSeq(loading.files, LAMBDA f : LoadFailure(f) = "None")[n]).plugin]
        /\ loading.reported = SelectSeq(loading.files, LAMBDA f : LoadFailure(f) # "None")

\* The places of the loaded plugins that register the name cmd.
Registering(cmd) == {i \in 1..Len(plugins) : cmd \in DOMAIN commands(plugins[i])}

\* The calls of command functions, and the replies sent, for event e.
Invocations(e) == {o \in 1..Len(outcomes) : outcomes[o].event = e /\ outcomes[o].called}

Replies(e) == {k \in 1..Len(sent) : sent[k].event = e /\ sent[k].what = "reply"}

\* C16: a message that names an alias two loaded plugins register calls one
\* command function, that of the plugin registered last, and has at most
\* one reply sent.
C16_AliasResolvesToOne ==
    \A e \in 1..Len(events) :
        LET cmd == split(DropFirst(events[e].message.content, Len(Prefix)))[1] IN
        (events[e].kind = "message" /\ Cardinality(Registering(cmd)) >= 2) =>
            /\ Cardinality(Invocations(e)) <= 1
            /\ Cardinality(Replies(e)) <= 1
            /\ \A o \in Invocations(e) :
                  \A i \in Registering(cmd) : i <= outcomes[o].plugin
            /\ events[e].pc = "done" => Cardinality(Invocations(e)) = 1

\* The token the Number converter is given last: the text after the last
\* space of the line.
RECURSIVE LastToken(_)
LastToken(line) ==
    IF line = <<>> \/ line[Len(line)] = Space THEN <<>>
    ELSE Append(LastToken(SubSeq(line, 1, Len(line) - 1)), line[Len(line)])

\* The characters of a token that are among chars.
Count(token, chars) == Cardinality({i \in 1..Len(token) : token[i] \in chars})

\* The token is a number in decimal notation: after a sign or none, nothing
\* but digits and at most one decimal point, and at least one digit.
IsNumeral(token) ==
    LET from == IF token # <<>> /\ token[1] \in {"-", "+"} THEN 2 ELSE 1
        body == SubSeq(token, from, Len(token))
    IN  /\ Count(body, Digits) >= 1
        /\ Count(body, {"."}) <= 1
        /\ Count(body, Digits) + Count(body, {"."}) = Len(body)

\* C18: the Number converter returns an int for a token without a decimal
\* point that is a number and a float for a number with a decimal point;
\* for any other token it raises WrongType and nothing else.
C18_NumberConverter ==
    \A o \in 1..Len(outcomes) :
        outcomes[o].stage = "invoked" =>
            LET token == LastToken(LineOf(o)) IN
            IF IsNumeral(token)
            THEN /\ outcomes[o].bound
                 /\ outcomes[o].args[Len(outcomes[o].args)].type =
                       IF Count(token, {"."}) = 0 THEN "int" ELSE "float"
            ELSE /\ outcomes[o].exc = "WrongType"
                 /\ ~outcomes[o].bound /\ ~outcomes[o].called

\* A negative number with a decimal point was converted, and the function
\* called with it.
C18_Witness ==
    \E o \in 1..Len(outcomes) :
        /\ LastToken(LineOf(o)) = <<"-", "1", ".", "2">>
        /\ outcomes[o].called
        /\ outcomes[o].args[Len(outcomes[o].args)].type = "float"

\* The places of the permission gates of command c.
PermissionGates(c) ==
    {g \in 1..Len(Command(c).gates) : Command(c).gates[g].gate = "require_permissions"}

\* The permissions of gate g of the command of outcome o that its author
\* does not hold in the channel of the message, by their place in the gate.
Missing(o, g) ==
    LET message == events[outcomes[o].event].message
        permission == Command(outcomes[o].command).gates[g].permission
    IN  {n \in 1..Len(permission) :
            permission[n] \notin permissions_in(message.author, message.channel)}

\* C19: the function of a command behind a permission gate is called only
\* for an author who holds every permission of the gate in the channel of
\* the message; a call that comes to the gate without one of them fails
\* with MissingPermission, which names the first one missing in the order
\* declared, and the function is not called.
C19_PermissionGate ==
    \A o \in 1..Len(outcomes) :
        (outcomes[o].stage = "invoked" /\ outcomes[o].bound) =>
            \A g \in PermissionGates(outcomes[o].command) :
                LET permission == Command(outcomes[o].command).gates[g].permission
                    first == CHOOSE n \in Missing(o, g) : \A k \in Missing(o, g) : n <= k
                IN  /\ outcomes[o].called => Missing(o, g) = {}
                    /\ (outcomes[o].passed = g - 1 /\ Missing(o, g) # {}) =>
                          /\ outcomes[o].exc = "MissingPermission"
                          /\ outcomes[o].text =
                                <<"This command requires the ", BackQuote,
                                  permission[first], BackQuote, " permission">>
                          /\ ~outcomes[o].called
                    /\ (outcomes[o].passed = g - 1 /\ Missing(o, g) = {}) =>
                          outcomes[o].exc # "MissingPermission"

\* carol was refused in the channel where she may not kick, for the second
\* permission the gate declares, and was let through in the channel where
\* she holds both.
C19_Witness ==
    /\ \E o \in 1..Len(outcomes) :
          /\ AuthorOf(o) = "carol" /\ outcomes[o].command = "mute"
          /\ events[outcomes[o].event].message.channel.name = <<"m">>
          /\ outcomes[o].exc = "MissingPermission"
          /\ Missing(o, 1) = {2}
          /\ SentFor(outcomes[o].event, outcomes[o].plugin) # {}
    /\ \E o \in 1..Len(outcomes) :
          /\ AuthorOf(o) = "carol" /\ outcomes[o].command = "mute"
          /\ events[outcomes[o].event].message.channel.name = <<"g">>
          /\ outcomes[o].called

\* The function of the command of outcome o was called and failed.
FunctionFailed(o) ==
    outcomes[o].called /\ outcomes[o].exc \in {"CommandError", "Exception"}

\* C20: a call that passed the cooldown gate has recorded its time although
\* its function then failed: a later call of the command in that guild
\* within the cooldown is rejected by the gate.
C20_FailedCallConsumesCooldown ==
    \A a \in 1..Len(outcomes) :
        (PassedCooldown(a) /\ FunctionFailed(a)) =>
            /\ outcomes[a].stamped
            /\ \A b \in (a + 1)..Len(outcomes) :
                  (/\ outcomes[b].command = outcomes[a].command
                   /\ GuildOf(b) = GuildOf(a)
                   /\ AtCooldown(b)
                   /\ outcomes[b].time - outcomes[a].time
                         < Command(outcomes[a].command).gates[CooldownAt(outcomes[a].command)].seconds)
                      => RejectedByCooldown(b)

\* A function failed with an error that is no command error, and the next
\* call in the guild, a second later, was rejected.
C20_Witness ==
    \E a, b \in 1..Len(outcomes) :
        /\ a < b
        /\ PassedCooldown(a) /\ outcomes[a].exc = "Exception" /\ outcomes[a].called
        /\ outcomes[b].command = outcomes[a].command
        /\ GuildOf(b) = GuildOf(a)
        /\ outcomes[b].time = outcomes[a].time + 1
        /\ RejectedByCooldown(b)

\* The binding of outcome o failed: its command was found and
\* convert_arguments raised.
BindingFailed(o) ==
    outcomes[o].stage = "invoked" /\ outcomes[o].matched /\ ~outcomes[o].bound

\* What the binding of a line to the parameters of wait, one Number, fails
\* with: the arity by the number of tokens, then the token itself.
FrameFailure(line) ==
    IF NTokens(line) < 1
    THEN [exc |-> "MissingArguments",
          text |-> <<"1", " argument(s) are required for this command">>]
    ELSE IF NTokens(line) > 1
    THEN [exc |-> "TooManyArguments",
          text |-> <<"Only ", "1", " argument(s) are allowed for this command">>]
    ELSE [exc |-> "WrongType",
          text |-> <<BackQuote>> \o LastToken(line) \o <<BackQuote, " isn't a number.">>]

\* C21: a call whose binding fails ends there: no gate has run, no cooldown
\* time is recorded, no argument is passed on and the function is not
\* called; the failure leaves real_command as it was raised, so what is
\* reported to the channel is the text of that failure.
C21_BindingFailureAborts ==
    \A o \in 1..Len(outcomes) :
        BindingFailed(o) =>
            /\ outcomes[o].passed = 0
            /\ ~outcomes[o].stamped
            /\ outcomes[o].args = <<>>
            /\ ~outcomes[o].called
            /\ outcomes[o].exc = FrameFailure(LineOf(o)).exc
            /\ outcomes[o].text = FrameFailure(LineOf(o)).text
            /\ \A k \in SentFor(outcomes[o].event, outcomes[o].plugin) :
                  sent[k].what = "report" /\ sent[k].text = FrameFailure(LineOf(o)).text
            /\ \A b \in (o + 1)..Len(outcomes) :
                  (AtCooldown(b) /\ ~\E a \in 1..Len(outcomes) : Cools(a, b))
                      => PassedCooldown(b)

\* The token of bob, who holds no permission, was no number and that was
\* reported; alice called the command in the same second.
C21_Witness ==
    \E a, b \in 1..Len(outcomes) :
        /\ a < b
        /\ AuthorOf(a) = "bob" /\ BindingFailed(a) /\ outcomes[a].exc = "WrongType"
        /\ SentFor(outcomes[a].event, outcomes[a].plugin) # {}
        /\ outcomes[b].time = outcomes[a].time
        /\ outcomes[b].called

\* The tokens of a line after the name of the command, the empty ones
\* included.
TokensOf(line) == Tail(split(DropFirst(line, Len(Prefix))))

\* C22: a line with at least as many tokens as the command with *arg has
\* parameters before the *arg binds its tokens in order, the first ones
\* with the converters of those parameters and every one after them with
\* the converter of the *arg, none left for the *arg included; the call
\* fails only with the failure of a converter.
C22_VariadicBinding ==
    \A o \in 1..Len(outcomes) :
        (/\ outcomes[o].stage = "invoked"
         /\ Variadic(ParamsOf(o))
         /\ Len(TokensOf(LineOf(o))) >= Required(ParamsOf(o))) =>
            LET tokens == TokensOf(LineOf(o))
                params == ParamsOf(o)
            IN  IF Converts(params, tokens)
                THEN /\ outcomes[o].bound
                     /\ outcomes[o].args =
                           [k \in 1..Len(tokens) |-> convert(ConverterAt(params, k), tokens[k]).val]
                ELSE ~outcomes[o].bound /\ outcomes[o].exc = "WrongType"

\* The tasks created for the hook on_message of the plugin at place i for
\* event e, and for its listener at place j of the registry.
HookTasks(e, i) ==
    {t \in 1..Len(tasks) :
        tasks[t].event = e /\ tasks[t].plugin = i /\ tasks[t].handler = "message"}

ListenerTasks(e, i, j) ==
    {t \in 1..Len(tasks) :
        /\ tasks[t].event = e /\ tasks[t].plugin = i
        /\ tasks[t].handler = "listener" /\ tasks[t].listener = j}

\* The filter of a listener lets the message through.
FilterMatches(channel, message) ==
    /\ message.channel.type = "TextChannel"
    /\ channel = NoChannel \/ channel = message.channel.name

TasksOf(e, i) == {t \in 1..Len(tasks) : tasks[t].event = e /\ tasks[t].plugin = i}

\* C24: the tasks a plugin creates for a message were given to the loop in
\* one order: the hook on_message first, then the listeners that match in
\* the order of the registry, nothing of another plugin between them; and
\* all of them had been given to the loop when the command handling of
\* the plugin began.
C24_HandlersOfferedInOrder ==
    \A o \in 1..Len(outcomes) :
        LET e == outcomes[o].event
            i == outcomes[o].plugin
            first == outcomes[o].offered - Cardinality(TasksOf(e, i)) + 1
        IN  /\ TasksOf(e, i) = first..outcomes[o].offered
            /\ tasks[first].handler = "message"
            /\ \A t \in (first + 1)..outcomes[o].offered : tasks[t].handler = "listener"
            /\ \A t, u \in (first + 1)..outcomes[o].offered :
                  t < u => tasks[t].listener < tasks[u].listener

\* Hear was handed a command line written in channel g: its hook and its
\* three listeners that match stand in the loop in that order, and its
\* command was called after they were created.
C24_Witness ==
    \E o \in 1..Len(outcomes) :
        LET e == outcomes[o].event
            i == outcomes[o].plugin
        IN  /\ plugins[i] = "Hear" /\ i = 2
            /\ outcomes[o].called
            /\ outcomes[o].offered = Len(tasks)
            /\ [t \in 1..4 |-> tasks[outcomes[o].offered - 4 + t].listener] = <<0, 1, 2, 4>>

\* The schedulers of job j of the plugin at place i that go on: a scheduler
\* ends only when it is cancelled, and nothing here cancels one.
LiveSchedulers(i, j) ==
    {k \in 1..Len(schedulers) :
        /\ schedulers[k].plugin = i /\ schedulers[k].job = j
        /\ schedulers[k].pc \in {"created", "sleeping"}}

\* C25: however often a plugin is made ready, every job it declares has at
\* most one scheduler that goes on.
C25_OneLiveSchedulerPerJob ==
    \A i \in 1..Len(plugins) :
        \A n \in 1..Len(collect_bg_tasks(plugins[i])) :
            Cardinality(LiveSchedulers(i, collect_bg_tasks(plugins[i])[n])) <= 1

\* The calls of start_bg_tasks of the plugin at place i that have ended.
StartCalls(i) ==
    {t \in 1..Len(tasks) :
        /\ tasks[t].plugin = i /\ tasks[t].handler = "start_bg_tasks"
        /\ tasks[t].state # "pending"}

\* C30: every call of start_bg_tasks returns, having started one scheduler
\* for each job the plugin declares, and leaves bg_tasks, the job
\* functions the plugin declares, as it was.
C30_StartBgTasksCompletes ==
    \A i \in 1..Len(plugins) :
        /\ \A t \in StartCalls(i) : tasks[t].state = "done"
        /\ \A n \in 1..Len(collect_bg_tasks(plugins[i])) :
              Cardinality({k \in 1..Len(schedulers) :
                              /\ schedulers[k].plugin = i
                              /\ schedulers[k].job = collect_bg_tasks(plugins[i])[n]})
                  = Cardinality(StartCalls(i))
        /\ bg_tasks[i] = Collected(plugins)[i]

\* The function of a command called for event e failed with an error that
\* is no command error: the one failure that ends the coroutine of an event.
CommandFailed(e) ==
    \E o \in 1..Len(outcomes) :
        outcomes[o].event = e /\ outcomes[o].exc \notin CommandErrors \cup {"None"}

\* Task t is the next the loop runs.
NextToRun(t) ==
    /\ running = 0
    /\ tasks[t].state = "pending"
    /\ \A u \in 1..(t - 1) : tasks[u].state # "pending"

\* C26: a hook on_message or a listener that raised has taken nothing from
\* the message: the plugin has all its tasks and its command handling has
\* begun, the tasks after the one that raised are run by the loop, the
\* coroutine of the event has not failed for it, and an event that has
\* ended was handed to every plugin.
C26_TaskFailureIsolated ==
    \A t \in 1..Len(tasks) :
        (tasks[t].state = "raised" /\ tasks[t].event # 0) =>
            LET e == tasks[t].event
                i == tasks[t].plugin
            IN  /\ \E o \in 1..Len(outcomes) :
                      /\ outcomes[o].event = e /\ outcomes[o].plugin = i
                      /\ Cardinality(TasksOf(e, i)) =
                            1 + Cardinality({j \in 1..Len(PluginDef(plugins[i]).listeners) :
                                    FilterMatches(PluginDef(plugins[i]).listeners[j],
                                                  events[e].message)})
                /\ \A u \in 1..Len(tasks) :
                      NextToRun(u) => ENABLED RunTask(u, {"None", "Exception"})
                /\ ~CommandFailed(e) =>
                      /\ events[e].pc # "failed"
                      /\ events[e].pc = "done" =>
                            \A j \in 1..Len(plugins) :
                                /\ \E q \in 1..Len(outcomes) :
                                      outcomes[q].event = e /\ outcomes[q].plugin = j
                                /\ HookTasks(e, j) # {}

\* The hook and the first listener of Hear raised; its other listeners ran,
\* its command was called and replied, and Plain after it got the message
\* and ran its hook and its listeners.
C26_Witness ==
    /\ plugins = <<"Hear", "Plain">>
    /\ Len(events) = 1 /\ Finished(1)
    /\ events[1].pc = "done"
    /\ Len(tasks) = 7
    /\ tasks[1].state = "raised" /\ tasks[2].state = "raised"
    /\ tasks[3].state = "done" /\ tasks[4].state = "done"
    /\ Cardinality(TasksOf(1, 1)) = 4
    /\ \E o \in 1..Len(outcomes) :
          outcomes[o].plugin = 1 /\ outcomes[o].called /\ outcomes[o].returned = "str"
    /\ SentFor(1, 1) # {}
    /\ Cardinality(TasksOf(1, 2)) = 3
    /\ \A t \in TasksOf(1, 2) : tasks[t].state = "done"

\* C27: the binding of the arguments of a command line returns the
\* arguments or fails with a command error, MissingArguments,
\* TooManyArguments or WrongType, whatever the line.
C27_BindingRaisesCommandErrorsOnly ==
    \A o \in 1..Len(outcomes) :
        (outcomes[o].stage = "invoked" /\ ~outcomes[o].bound) =>
            outcomes[o].exc \in {"MissingArguments", "TooManyArguments", "WrongType"}

\* C28: when real_command calls the function of a command, the arguments it
\* passes are at least as many as the parameters the command requires and
\* at most as many as it takes: as many as it declares when it has no *arg.
C28_ArgumentCountAtCall ==
    \A o \in 1..Len(outcomes) :
        (outcomes[o].stage = "invoked" /\ outcomes[o].bound) =>
            /\ Len(outcomes[o].args) >= Required(ParamsOf(o))
            /\ ~Variadic(ParamsOf(o)) => Len(outcomes[o].args) = Len(ParamsOf(o))

\* The calls of command c in guild g that passed its cooldown gate.
PassedIn(c, g) ==
    {a \in 1..Len(outcomes) :
        outcomes[a].command = c /\ GuildOf(a) = g /\ PassedCooldown(a)}

\* The time the cooldown gate of command c holds for guild g, and the time
\* of the last call that passed it there (0: none).
StampOf(c, g) == Get(guild_calls[c][CooldownAt(c)], g)

LastPassed(c, g) ==
    IF PassedIn(c, g) = {} THEN 0
    ELSE outcomes[CHOOSE a \in PassedIn(c, g) : \A x \in PassedIn(c, g) : x <= a].time

\* C29: a call the cooldown gate rejects changes nothing the gates keep:
\* the gate holds, for every guild, the time of the last call that passed
\* it, so calls it rejects do not prolong the cooldown; and a call that
\* comes to the gate when every call that passed it in the guild lies at
\* least the cooldown back passes it.
C29_RejectionLeavesCooldown ==
    /\ \A o \in 1..Len(outcomes) : RejectedByCooldown(o) => ~outcomes[o].stamped
    /\ \A c \in CommandIds :
          CooldownAt(c) # 0 => \A g \in Guilds : StampOf(c, g) = LastPassed(c, g)
    /\ \A b \in 1..Len(outcomes) :
          (/\ AtCooldown(b)
           /\ \A a \in PassedIn(outcomes[b].command, GuildOf(b)) :
                 a < b => outcomes[b].time - outcomes[a].time
                            >= Command(outcomes[b].command).gates[CooldownAt(outcomes[b].command)].seconds)
              => PassedCooldown(b)

\* A call passed the gate, a call a second later was rejected, and a call
\* another second later, the cooldown after the first, passed.
C29_Witness ==
    \E a, b, c \in 1..Len(outcomes) :
        /\ a < b /\ b < c
        /\ outcomes[a].command = outcomes[b].command /\ outcomes[b].command = outcomes[c].command
        /\ GuildOf(a) = GuildOf(b) /\ GuildOf(b) = GuildOf(c)
        /\ PassedCooldown(a) /\ RejectedByCooldown(b) /\ PassedCooldown(c)
        /\ outcomes[b].time = outcomes[a].time + 1
        /\ outcomes[c].time = outcomes[a].time + CooldownSeconds
        /\ outcomes[c].called

\* The scheduler at place k has a run that raised an error.
HasRaised(k) ==
    \E r \in 1..Len(schedulers[k].runs) : schedulers[k].runs[r].state = "raised"

\* C31: a run of a job that raised an error does not stop its scheduler: the
\* scheduler goes on sleeping, every run it starts after that one is started
\* after a sleep of the interval of the job, and it goes on to start runs:
\* in the end every scheduler with such a run has started as many runs as
\* the model counts.
C31_RaisedRunKeepsScheduler ==
    /\ [](\A k \in 1..Len(schedulers) :
             HasRaised(k) =>
                 /\ schedulers[k].pc = "sleeping"
                 /\ \A r \in 2..Len(schedulers[k].runs) :
                       schedulers[k].runs[r].waited = Job(schedulers[k].job).s)
    /\ <>[](\A k \in 1..Len(schedulers) :
               HasRaised(k) => Len(schedulers[k].runs) = MaxStarts)

\* Every run of a scheduler but the newest raised an error before the next
\* was started: the job disallows overlap, so a run that the scheduler did
\* not ask to cancel was done when the scheduler woke.
C31_Witness ==
    \E k \in 1..Len(schedulers) :
        /\ Job(schedulers[k].job).cancel_old_task
        /\ Len(schedulers[k].runs) = MaxStarts
        /\ \A r \in 1..(MaxStarts - 1) :
              /\ schedulers[k].runs[r].state = "raised"
              /\ ~schedulers[k].runs[r].cancel

=============================================================================
